---- MODULE Spec2Model ----
(***************************************************************************)
(* Model of jeamon/demo-redis: the request pipeline (panic recovery,       *)
(* maintenance mode, requests counter, timeout guard, statistics, response *)
(* sink) and the dual-tier book store (redis primary, bolt backup, redis   *)
(* work queue and its consumer loop).                                      *)
(***************************************************************************)
EXTENDS Integers, Sequences, FiniteSets, TLC

(***************************************************************************)
(* Bounds of the model.                                                    *)
(***************************************************************************)
MaxRequests == 2     \* requests the server accepts
MaxHandlerOps == 2   \* response operations of one entity handler
MaxCalls == 3        \* calls of the book service
MaxTime == 1         \* readings of the clock
MaxEvents == 2       \* events pushed while the consumer is observed
MaxTurns == 3        \* pops of the observed consumer loop
MaxClients == 4      \* requests in flight at the requests counter
MaxChain == 3        \* interceptors in a list handed to Chain
MaxInvocations == 2  \* concurrent invocations of a chained handler
MaxServed == 2       \* requests the book handlers serve
MaxArrivals == 4     \* requests that enter the two stacks
MaxInFlight == 2     \* requests inside the two stacks at a time
MaxFinishing == 3    \* requests finishing at the status histogram
MaxLane == 1         \* events waiting on one lane of the running consumer

(***************************************************************************)
(* HTTP status codes used by the pipeline.                                 *)
(***************************************************************************)
StatusOK == 200
StatusCreated == 201
StatusBadRequest == 400
StatusNotFound == 404
StatusClientClosed == 499
StatusInternalServerError == 500
StatusServiceUnavailable == 503
StatusGatewayTimeout == 504

\* Readings of the clock (api.clock.Now()).
Times == 1..MaxTime

\* Codes an entity handler hands to WriteResponse / WriteErrorResponse.
HandlerStatuses == {StatusOK, StatusNotFound}
StatusCodes == {StatusOK, StatusNotFound, StatusClientClosed,
                StatusInternalServerError, StatusGatewayTimeout}

VARIABLES
    \* ---- request pipeline -------------------------------------------
    reqNo,        \* requests accepted so far by the process
    crashed,      \* the process died of an unrecovered panic
    mpc,          \* position of the goroutine serving the request
    hpc,          \* position of the goroutine started by TimeoutMiddleware
    ctxErr,       \* ctx.Err() of the request context
    hdrAborted,   \* value of the X-DRAP-ABORTED response header
    rw,           \* the native http.ResponseWriter of the request
    cw,           \* the CustomResponseWriter built by StatsMiddleware
    done,         \* the done channel of TimeoutMiddleware is closed
    stats,        \* api.stats.status: status code -> count
    hop,          \* the sink call the handler goroutine is executing
    hops,         \* response operations started by the entity handler
    \* ---- observations on the current request -------------------------
    fired,        \* "T" / "C" once the guard took the ctx.Done() branch
    firedEarly,   \* ... and the entity handler had not returned by then
    panicked,     \* a panic was raised while processing the request
    firstReached, \* first code that reached the sink while not finalized
    cwForwards,   \* WriteHeader calls the sink forwarded to rw
    lateWrite,    \* the sink forwarded a call to rw after the abort marker
    recorded,     \* code StatsMiddleware added to the histogram (0: none)
    doneFirst,    \* done was closed while ctx.Err() was still nil
    wobs,         \* the last Write on the sink: what it found and what it did
    mobs,         \* what MaintenanceModeMiddleware found for this request
    \* ---- maintenance mode --------------------------------------------
    mode,         \* api.mode: enabled, reason, started
    opc,          \* position of the ops request running APIHandler.Maintenance
    \* ---- dual-tier book store ----------------------------------------
    pstore,       \* primary store: the redis hash "books", id -> JSON
    bstore,       \* backup store: the bolt bucket, id -> JSON
    queue,        \* the redis lists of the work queue, lane -> JSON items
    calls,        \* calls of the book service made so far
    ret,          \* the last call of the book service: inputs, result, trace
    \* ---- boltDBConsumer.Consume ---------------------------------------
    cctx,         \* ctx.Err() of the context handed to Consume
    cpc,          \* position of the consumer loop
    turn,         \* what the last Pop returned, and the dispatch that followed
    turns,        \* pops made so far
    consumeRet,   \* what Consume returned ("none" while it runs)
    pushed,       \* lane -> items RPUSH has appended, in order
    applied,      \* calls the consumer made on the backup store, in order
    \* ---- requests counter ---------------------------------------------
    called,       \* api.stats.called
    rpc,          \* client -> position of its request at the counter
    rnum,         \* client -> request number put in its context (0: none)
    \* ---- Middlewares.Chain ---------------------------------------------
    mws,          \* the list of interceptors handed to Chain
    chained,      \* the handler Chain returned
    inv,          \* invocation -> its position in the chained handler
    \* ---- the book stores called directly ------------------------------
    rcall,        \* the last call made on a store, and what it returned
    lastw,        \* store -> id -> the book last written and not deleted
    \* ---- the book handlers ----------------------------------------------
    resp,         \* the last request a book handler served and its response
    served,       \* requests the book handlers have served
    \* ---- the two stacks of interceptors -------------------------------
    oreqs,        \* slot -> the request walking down its stack
    arrived,      \* requests that have entered a stack
    \* ---- the lock of the status histogram -----------------------------
    sreq,         \* request -> its position at api.stats and what it read
    smu,          \* api.stats.mu: the writer and the readers holding it
    left,         \* status code -> requests that left StatsMiddleware
    \* ---- BookService.DeleteAll ---------------------------------------
    dall,         \* the call of DeleteAll: position, contexts, last log
    clearing,     \* the goroutine calling pstorage.DeleteAll(opsCtx)
    errChan,      \* the buffered channel of that goroutine
    \* ---- the counter and the histogram of api.stats --------------------
    treq,         \* slot -> a request between the counter and the histogram
    \* ---- App.Run ------------------------------------------------------
    app           \* Run and the goroutines of its errgroup

pipeVars == <<reqNo, crashed, mpc, hpc, ctxErr, hdrAborted, rw, cw, done,
              stats, hop, hops, fired, firedEarly, panicked, firstReached,
              cwForwards, lateWrite, recorded, doneFirst, wobs, mobs>>

maintVars == <<mode, opc>>

storeVars == <<pstore, bstore, queue, calls, ret>>

consVars == <<cctx, cpc, turn, turns, consumeRet, pushed, applied>>

ctrVars == <<called, rpc, rnum>>

chainVars == <<mws, chained, inv>>

repoVars == <<rcall, lastw>>

handlerVars == <<resp, served>>

stackVars == <<oreqs, arrived>>

histVars == <<sreq, smu, left>>

clearVars == <<dall, clearing, errChan>>

totalVars == <<treq>>

runVars == <<app>>

\* The remaining parts of the model.
extVars == <<chainVars, repoVars, handlerVars, stackVars, histVars,
             clearVars, totalVars, runVars>>

\* What the request pipeline, the book service and the counter leave alone.
offPipe == <<maintVars, storeVars, consVars, ctrVars, extVars>>
offStore == <<pipeVars, maintVars, consVars, ctrVars, extVars>>
offCounter == <<pipeVars, maintVars, storeVars, consVars, extVars>>

offChain == <<pipeVars, maintVars, storeVars, consVars, ctrVars, repoVars,
              handlerVars, stackVars, histVars, clearVars, totalVars,
              runVars>>
offRepo == <<pipeVars, maintVars, consVars, ctrVars, chainVars, handlerVars,
             stackVars, histVars, clearVars, totalVars, runVars>>
offHandler == <<pipeVars, maintVars, consVars, ctrVars, chainVars, repoVars,
                stackVars, histVars, clearVars, totalVars, runVars>>
othersStack == <<chainVars, repoVars, handlerVars, histVars, clearVars,
                 totalVars, runVars>>
othersHist == <<chainVars, repoVars, handlerVars, stackVars, clearVars,
                totalVars, runVars>>
othersClear == <<chainVars, repoVars, handlerVars, stackVars, histVars,
                 totalVars, runVars>>
othersTotal == <<chainVars, repoVars, handlerVars, stackVars, histVars,
                 clearVars, runVars>>
othersRun == <<chainVars, repoVars, handlerVars, stackVars, histVars,
               clearVars, totalVars>>

vars == <<pipeVars, maintVars, storeVars, consVars, ctrVars, extVars>>

(***************************************************************************)
(* The native http.ResponseWriter: the first WriteHeader commits the       *)
(* status line, later ones are ignored; Write commits 200 when no header   *)
(* was written; nothing is accepted once the server finished the response. *)
(***************************************************************************)
NewResponseWriter ==
    [wroteHeader |-> FALSE, status |-> 0, body |-> <<>>, finished |-> FALSE]

RWWriteHeader(w, code) ==
    IF w.wroteHeader \/ w.finished
    THEN w
    ELSE [w EXCEPT !.wroteHeader = TRUE, !.status = code]

RWWrite(w, chunk) ==
    IF w.finished
    THEN w
    ELSE LET h == RWWriteHeader(w, StatusOK)
         IN  [h EXCEPT !.body = Append(h.body, chunk)]

RWFinish(w) ==
    [RWWriteHeader(w, StatusOK) EXCEPT !.finished = TRUE]

\* The bodies written on a response.
HandlerBody == [message |-> "handler"]
TimeoutBody == [message |-> "request handling timed out"]
RecoveryBody == [message |-> "failed to process the request."]

(***************************************************************************)
(* CustomResponseWriter.                                                   *)
(***************************************************************************)
NewCustomResponseWriter == [code |-> StatusOK, bytes |-> 0, wrote |-> FALSE]

Aborted == hdrAborted # ""

NoOp == [code |-> 0, kont |-> "ret"]

\* No Write was made on the sink yet.
NoWrite == [phase |-> "none", aborted |-> FALSE, wrote |-> FALSE, code |-> 0,
            bytes |-> 0, err |-> "nil", n |-> 0, late |-> FALSE, status |-> 0]

\* Where a sink call returns to.
Resume(kont) ==
    CASE kont = "ret"    -> "h_run"
      [] kont = "encode" -> "w_chk"
      [] kont = "write"  -> "w_fwd"

ResumeOp(kont) ==
    IF kont = "encode" THEN [code |-> 0, kont |-> "ret"] ELSE NoOp

(***************************************************************************)
(* The goroutine started by TimeoutMiddleware: StatsMiddleware around the  *)
(* entity handler.  The handler issues response operations on the sink:    *)
(* WriteResponse / WriteErrorResponse, a bare Encode (Status, GetConfigs)  *)
(* or a bare WriteHeader, then returns, or panics.                         *)
(***************************************************************************)
HandlerWriteResponse(s) ==
    /\ hpc = "h_run" /\ hops < MaxHandlerOps /\ ~crashed
    /\ hpc' = "wr_ctx"
    /\ hop' = [code |-> s, kont |-> "encode"]
    /\ hops' = hops + 1
    /\ UNCHANGED <<reqNo, crashed, mpc, ctxErr, hdrAborted, rw, cw, done,
                   stats, fired, firedEarly, panicked, firstReached,
                   cwForwards, lateWrite, recorded>>
    /\ UNCHANGED <<doneFirst, wobs, mobs>>
    /\ UNCHANGED offPipe

HandlerEncode ==
    /\ hpc = "h_run" /\ hops < MaxHandlerOps /\ ~crashed
    /\ hpc' = "w_chk"
    /\ hop' = NoOp
    /\ hops' = hops + 1
    /\ UNCHANGED <<reqNo, crashed, mpc, ctxErr, hdrAborted, rw, cw, done,
                   stats, fired, firedEarly, panicked, firstReached,
                   cwForwards, lateWrite, recorded>>
    /\ UNCHANGED <<doneFirst, wobs, mobs>>
    /\ UNCHANGED offPipe

HandlerWriteHeader(c) ==
    /\ hpc = "h_run" /\ hops < MaxHandlerOps /\ ~crashed
    /\ hpc' = "wh_chk"
    /\ hop' = [code |-> c, kont |-> "ret"]
    /\ hops' = hops + 1
    /\ UNCHANGED <<reqNo, crashed, mpc, ctxErr, hdrAborted, rw, cw, done,
                   stats, fired, firedEarly, panicked, firstReached,
                   cwForwards, lateWrite, recorded>>
    /\ UNCHANGED <<doneFirst, wobs, mobs>>
    /\ UNCHANGED offPipe

\* WriteResponse / WriteErrorResponse: the ctx.Err() test, which picks the
\* code handed to WriteHeader and whether a body is encoded afterwards.
WriteResponse ==
    /\ hpc = "wr_ctx" /\ ~crashed
    /\ hop' = CASE ctxErr = "DeadlineExceeded" ->
                       [code |-> StatusGatewayTimeout, kont |-> "ret"]
                [] ctxErr = "Canceled" ->
                       [code |-> StatusClientClosed, kont |-> "ret"]
                [] OTHER -> hop
    /\ hpc' = "wh_chk"
    /\ UNCHANGED <<reqNo, crashed, mpc, ctxErr, hdrAborted, rw, cw, done,
                   stats, hops, fired, firedEarly, panicked, firstReached,
                   cwForwards, lateWrite, recorded>>
    /\ UNCHANGED <<doneFirst, wobs, mobs>>
    /\ UNCHANGED offPipe

\* CustomResponseWriter.WriteHeader up to the call of the native writer.
CWWriteHeader ==
    /\ hpc = "wh_chk" /\ ~crashed
    /\ IF Aborted
       THEN /\ cw' = [cw EXCEPT !.code = hop.code, !.wrote = TRUE]
            /\ hpc' = Resume(hop.kont)
            /\ hop' = ResumeOp(hop.kont)
            /\ UNCHANGED firstReached
       ELSE IF ~cw.wrote
       THEN /\ cw' = [cw EXCEPT !.code = hop.code, !.wrote = TRUE]
            /\ hpc' = "wh_fwd"
            /\ hop' = hop
            /\ firstReached' = IF firstReached = 0 THEN hop.code ELSE firstReached
       ELSE /\ cw' = cw
            /\ hpc' = Resume(hop.kont)
            /\ hop' = ResumeOp(hop.kont)
            /\ UNCHANGED firstReached
    /\ UNCHANGED <<reqNo, crashed, mpc, ctxErr, hdrAborted, rw, done, stats,
                   hops, fired, firedEarly, panicked, cwForwards, lateWrite,
                   recorded>>
    /\ UNCHANGED <<doneFirst, wobs, mobs>>
    /\ UNCHANGED offPipe

\* cw.ResponseWriter.WriteHeader(code)
CWForwardHeader ==
    /\ hpc = "wh_fwd" /\ ~crashed
    /\ rw' = RWWriteHeader(rw, hop.code)
    /\ cwForwards' = cwForwards + 1
    /\ lateWrite' = (lateWrite \/ Aborted)
    /\ hpc' = Resume(hop.kont)
    /\ hop' = ResumeOp(hop.kont)
    /\ UNCHANGED <<reqNo, crashed, mpc, ctxErr, hdrAborted, cw, done, stats,
                   hops, fired, firedEarly, panicked, firstReached, recorded>>
    /\ UNCHANGED <<doneFirst, wobs, mobs>>
    /\ UNCHANGED offPipe

\* Mutant of CWWrite: the test of the abort marker is missing.
CWWriteUnchecked ==
    /\ hpc = "w_chk" /\ ~crashed
    /\ wobs' = [phase |-> "open", aborted |-> Aborted, wrote |-> cw.wrote,
                code |-> cw.code, bytes |-> cw.bytes, err |-> "nil",
                n |-> 0, late |-> Aborted, status |-> rw.status]
    /\ IF ~cw.wrote
       THEN /\ hpc' = "wh_chk"
            /\ hop' = [code |-> cw.code, kont |-> "write"]
       ELSE /\ hpc' = "w_fwd"
            /\ hop' = NoOp
    /\ UNCHANGED <<reqNo, crashed, mpc, ctxErr, hdrAborted, rw, cw, done,
                   stats, hops, fired, firedEarly, panicked, firstReached,
                   cwForwards, lateWrite, recorded>>
    /\ UNCHANGED <<doneFirst, mobs>>
    /\ UNCHANGED offPipe

\* CustomResponseWriter.Write up to the call of the native writer.
CWWrite ==
    /\ hpc = "w_chk" /\ ~crashed
    /\ wobs' = [phase |-> IF Aborted THEN "done" ELSE "open",
                aborted |-> Aborted, wrote |-> cw.wrote,
                code |-> cw.code, bytes |-> cw.bytes,
                err |-> IF Aborted THEN "ErrAborted" ELSE "nil",
                n |-> 0, late |-> Aborted, status |-> rw.status]
    /\ IF Aborted
       THEN /\ hpc' = "h_run"
            /\ hop' = NoOp
       ELSE IF ~cw.wrote
       THEN /\ hpc' = "wh_chk"
            /\ hop' = [code |-> cw.code, kont |-> "write"]
       ELSE /\ hpc' = "w_fwd"
            /\ hop' = NoOp
    /\ UNCHANGED <<reqNo, crashed, mpc, ctxErr, hdrAborted, rw, cw, done,
                   stats, hops, fired, firedEarly, panicked, firstReached,
                   cwForwards, lateWrite, recorded>>
    /\ UNCHANGED <<doneFirst, mobs>>
    /\ UNCHANGED offPipe

\* n, err := cw.ResponseWriter.Write(bytes); cw.bytes += n
CWForwardWrite ==
    /\ hpc = "w_fwd" /\ ~crashed
    /\ rw' = RWWrite(rw, HandlerBody)
    /\ cw' = [cw EXCEPT !.bytes = @ + (Len(rw'.body) - Len(rw.body))]
    /\ wobs' = [wobs EXCEPT !.phase = "done",
                            !.n = Len(rw'.body) - Len(rw.body),
                            !.late = Aborted, !.status = rw'.status]
    /\ lateWrite' = (lateWrite \/ Aborted)
    /\ hpc' = "h_run"
    /\ hop' = NoOp
    /\ UNCHANGED <<reqNo, crashed, mpc, ctxErr, hdrAborted, done, stats, hops,
                   fired, firedEarly, panicked, firstReached, cwForwards,
                   recorded>>
    /\ UNCHANGED <<doneFirst, mobs>>
    /\ UNCHANGED offPipe

\* The entity handler returns to StatsMiddleware.
HandlerReturn ==
    /\ hpc = "h_run" /\ ~crashed
    /\ hpc' = "stats"
    /\ UNCHANGED <<reqNo, crashed, mpc, ctxErr, hdrAborted, rw, cw, done,
                   stats, hop, hops, fired, firedEarly, panicked, firstReached,
                   cwForwards, lateWrite, recorded>>
    /\ UNCHANGED <<doneFirst, wobs, mobs>>
    /\ UNCHANGED offPipe

\* A panic in the entity handler: it unwinds the goroutine TimeoutMiddleware
\* started, which defers no recover, so the runtime ends the process.
HandlerPanic ==
    /\ hpc = "h_run" /\ ~crashed
    /\ panicked' = TRUE
    /\ crashed' = TRUE
    /\ UNCHANGED <<reqNo, mpc, hpc, ctxErr, hdrAborted, rw, cw, done, stats,
                   hop, hops, fired, firedEarly, firstReached, cwForwards,
                   lateWrite, recorded>>
    /\ UNCHANGED <<doneFirst, wobs, mobs>>
    /\ UNCHANGED offPipe

\* StatsMiddleware after next returned: the histogram update under the lock.
StatsMiddleware ==
    /\ hpc = "stats" /\ ~crashed
    /\ stats' = [stats EXCEPT ![cw.code] = @ + 1]
    /\ recorded' = cw.code
    /\ hpc' = "close"
    /\ UNCHANGED <<reqNo, crashed, mpc, ctxErr, hdrAborted, rw, cw, done, hop,
                   hops, fired, firedEarly, panicked, firstReached, cwForwards,
                   lateWrite>>
    /\ UNCHANGED <<doneFirst, wobs, mobs>>
    /\ UNCHANGED offPipe

\* Mutant of CloseDone: a send on the unbuffered channel, which needs the
\* guard to be receiving.
CloseDoneSend ==
    /\ hpc = "close" /\ ~crashed
    /\ mpc = "select"
    /\ done' = TRUE
    /\ doneFirst' = (ctxErr = "nil")
    /\ hpc' = "exited"
    /\ UNCHANGED <<reqNo, crashed, mpc, ctxErr, hdrAborted, rw, cw, stats, hop,
                   hops, fired, firedEarly, panicked, firstReached, cwForwards,
                   lateWrite, recorded>>
    /\ UNCHANGED <<wobs, mobs>>
    /\ UNCHANGED offPipe

\* close(done)
CloseDone ==
    /\ hpc = "close" /\ ~crashed
    /\ done' = TRUE
    /\ doneFirst' = (ctxErr = "nil")
    /\ hpc' = "exited"
    /\ UNCHANGED <<reqNo, crashed, mpc, ctxErr, hdrAborted, rw, cw, stats, hop,
                   hops, fired, firedEarly, panicked, firstReached, cwForwards,
                   lateWrite, recorded>>
    /\ UNCHANGED <<wobs, mobs>>
    /\ UNCHANGED offPipe

(***************************************************************************)
(* Maintenance mode.  APIHandler.Maintenance, reached by an ops request,   *)
(* enables or disables the mode: enabled is an atomic.Bool, reason and     *)
(* started are plain fields written one after the other without a lock.    *)
(* MaintenanceModeMiddleware, in the public chain only, loads enabled and  *)
(* answers through the "show" branch of the same handler.                  *)
(***************************************************************************)
Reasons == {"r1", "r2"}

\* api.mode after NewAPIHandler; started = 0 stands for time.Time{}.
NoMode == [enabled |-> FALSE, reason |-> "", started |-> 0]

NoCheck == [checked |-> FALSE, seen |-> NoMode, stable |-> FALSE]

\* t.Format(time.RFC1123)
FormatRFC1123(t) == [rfc1123 |-> t]

MaintenanceBody(reason, started) ==
    [message |-> "service currently unvailable.", reason |-> reason,
     since |-> FormatRFC1123(started)]

\* A write of api.mode while a request sits between the load of enabled
\* and the reads of reason and started.
Disturbed == IF mpc = "m_show" THEN [mobs EXCEPT !.stable = FALSE] ELSE mobs

\* case "enable": api.mode.reason = q.Get("msg")
MaintenanceEnableReason(msg) ==
    /\ opc = "idle" /\ ~crashed
    /\ mode' = [mode EXCEPT !.reason = msg]
    /\ opc' = "e_started"
    /\ mobs' = Disturbed
    /\ UNCHANGED <<reqNo, crashed, mpc, hpc, ctxErr, hdrAborted, rw, cw, done,
                   stats, hop, hops, fired, firedEarly, panicked, firstReached,
                   cwForwards, lateWrite, recorded, doneFirst, wobs>>
    /\ UNCHANGED <<storeVars, consVars, ctrVars, extVars>>

\* api.mode.started = api.clock.Now().UTC()
MaintenanceEnableStarted(now) ==
    /\ opc = "e_started" /\ ~crashed
    /\ mode' = [mode EXCEPT !.started = now]
    /\ opc' = "e_store"
    /\ mobs' = Disturbed
    /\ UNCHANGED <<reqNo, crashed, mpc, hpc, ctxErr, hdrAborted, rw, cw, done,
                   stats, hop, hops, fired, firedEarly, panicked, firstReached,
                   cwForwards, lateWrite, recorded, doneFirst, wobs>>
    /\ UNCHANGED <<storeVars, consVars, ctrVars, extVars>>

\* api.mode.enabled.Store(true)
MaintenanceEnableStore ==
    /\ opc = "e_store" /\ ~crashed
    /\ mode' = [mode EXCEPT !.enabled = TRUE]
    /\ opc' = "idle"
    /\ mobs' = Disturbed
    /\ UNCHANGED <<reqNo, crashed, mpc, hpc, ctxErr, hdrAborted, rw, cw, done,
                   stats, hop, hops, fired, firedEarly, panicked, firstReached,
                   cwForwards, lateWrite, recorded, doneFirst, wobs>>
    /\ UNCHANGED <<storeVars, consVars, ctrVars, extVars>>

\* case "disable": api.mode.enabled.Store(false)
MaintenanceDisableStore ==
    /\ opc = "idle" /\ ~crashed
    /\ mode.enabled
    /\ mode' = [mode EXCEPT !.enabled = FALSE]
    /\ opc' = "d_started"
    /\ mobs' = Disturbed
    /\ UNCHANGED <<reqNo, crashed, mpc, hpc, ctxErr, hdrAborted, rw, cw, done,
                   stats, hop, hops, fired, firedEarly, panicked, firstReached,
                   cwForwards, lateWrite, recorded, doneFirst, wobs>>
    /\ UNCHANGED <<storeVars, consVars, ctrVars, extVars>>

\* api.mode.started = time.Time{}.UTC()
MaintenanceDisableStarted ==
    /\ opc = "d_started" /\ ~crashed
    /\ mode' = [mode EXCEPT !.started = 0]
    /\ opc' = "d_reason"
    /\ mobs' = Disturbed
    /\ UNCHANGED <<reqNo, crashed, mpc, hpc, ctxErr, hdrAborted, rw, cw, done,
                   stats, hop, hops, fired, firedEarly, panicked, firstReached,
                   cwForwards, lateWrite, recorded, doneFirst, wobs>>
    /\ UNCHANGED <<storeVars, consVars, ctrVars, extVars>>

\* api.mode.reason = ""
MaintenanceDisableReason ==
    /\ opc = "d_reason" /\ ~crashed
    /\ mode' = [mode EXCEPT !.reason = ""]
    /\ opc' = "idle"
    /\ mobs' = Disturbed
    /\ UNCHANGED <<reqNo, crashed, mpc, hpc, ctxErr, hdrAborted, rw, cw, done,
                   stats, hop, hops, fired, firedEarly, panicked, firstReached,
                   cwForwards, lateWrite, recorded, doneFirst, wobs>>
    /\ UNCHANGED <<storeVars, consVars, ctrVars, extVars>>

\* Mutant of MaintenanceModeMiddleware: the request is always forwarded.
MaintenanceModeIgnored ==
    /\ mpc = "chain" /\ ~crashed
    /\ mobs' = [checked |-> TRUE, seen |-> mode, stable |-> opc = "idle"]
    /\ mpc' = "inner"
    /\ UNCHANGED <<reqNo, crashed, hpc, ctxErr, hdrAborted, rw, cw, done, stats,
                   hop, hops, fired, firedEarly, panicked, firstReached,
                   cwForwards, lateWrite, recorded, doneFirst, wobs>>
    /\ UNCHANGED offPipe

\* if api.mode.enabled.Load() { api.Maintenance(w, r, "show"); return }
MaintenanceModeMiddleware ==
    /\ mpc = "chain" /\ ~crashed
    /\ mobs' = [checked |-> TRUE, seen |-> mode, stable |-> opc = "idle"]
    /\ mpc' = IF mode.enabled THEN "m_show" ELSE "inner"
    /\ UNCHANGED <<reqNo, crashed, hpc, ctxErr, hdrAborted, rw, cw, done, stats,
                   hop, hops, fired, firedEarly, panicked, firstReached,
                   cwForwards, lateWrite, recorded, doneFirst, wobs>>
    /\ UNCHANGED offPipe

\* case "show": the response map, w.WriteHeader(503) and Encode, on the
\* native writer.
MaintenanceShow ==
    /\ mpc = "m_show" /\ ~crashed
    /\ rw' = RWWrite(RWWriteHeader(rw, StatusServiceUnavailable),
                     MaintenanceBody(mode.reason, mode.started))
    /\ mpc' = "ret"
    /\ UNCHANGED <<reqNo, crashed, hpc, ctxErr, hdrAborted, cw, done, stats,
                   hop, hops, fired, firedEarly, panicked, firstReached,
                   cwForwards, lateWrite, recorded, doneFirst, wobs, mobs>>
    /\ UNCHANGED offPipe

MaintInit ==
    /\ mode = NoMode
    /\ opc = "idle"

(***************************************************************************)
(* The goroutine net/http runs for the request: PanicRecoveryMiddleware,   *)
(* the interceptors up to TimeoutMiddleware, and TimeoutMiddleware itself. *)
(***************************************************************************)
HandlerGone == hpc \in {"none", "exited"}

\* The server accepts a request and enters the chain.
NewRequest ==
    /\ mpc = "idle" /\ HandlerGone /\ ~crashed
    /\ reqNo < MaxRequests
    /\ reqNo' = reqNo + 1
    /\ mpc' = "chain"
    /\ hpc' = "none"
    /\ ctxErr' = "nil"
    /\ hdrAborted' = ""
    /\ rw' = NewResponseWriter
    /\ cw' = NewCustomResponseWriter
    /\ done' = FALSE
    /\ hop' = NoOp
    /\ hops' = 0
    /\ fired' = "none"
    /\ firedEarly' = FALSE
    /\ panicked' = FALSE
    /\ firstReached' = 0
    /\ cwForwards' = 0
    /\ lateWrite' = FALSE
    /\ recorded' = 0
    /\ doneFirst' = FALSE
    /\ wobs' = NoWrite
    /\ mobs' = NoCheck
    /\ UNCHANGED <<crashed, stats>>
    /\ UNCHANGED offPipe

\* The client goes away (any time) or the deadline of the context derived
\* by TimeoutMiddleware expires (once it exists).
ContextDone(e) ==
    /\ ~crashed
    /\ ctxErr = "nil"
    /\ \/ mpc \in {"chain", "m_show", "inner"} /\ e = "Canceled"
       \/ mpc = "select"
    /\ ctxErr' = e
    /\ UNCHANGED <<reqNo, crashed, mpc, hpc, hdrAborted, rw, cw, done, stats,
                   hop, hops, fired, firedEarly, panicked, firstReached,
                   cwForwards, lateWrite, recorded>>
    /\ UNCHANGED <<doneFirst, wobs, mobs>>
    /\ UNCHANGED offPipe

\* A panic in an interceptor running on the request's own goroutine.
InterceptorPanic ==
    /\ mpc \in {"chain", "inner"} /\ ~crashed
    /\ panicked' = TRUE
    /\ mpc' = "recover"
    /\ UNCHANGED <<reqNo, crashed, hpc, ctxErr, hdrAborted, rw, cw, done,
                   stats, hop, hops, fired, firedEarly, firstReached,
                   cwForwards, lateWrite, recorded>>
    /\ UNCHANGED <<doneFirst, wobs, mobs>>
    /\ UNCHANGED offPipe

\* The deferred recovery of PanicRecoveryMiddleware: WriteErrorResponse on
\* the native writer with the request's own context.
PanicRecoveryMiddleware ==
    /\ mpc = "recover" /\ ~crashed
    /\ rw' = IF ctxErr = "Canceled"
             THEN RWWriteHeader(rw, StatusClientClosed)
             ELSE RWWrite(RWWriteHeader(rw, StatusInternalServerError),
                          RecoveryBody)
    /\ mpc' = "ret"
    /\ UNCHANGED <<reqNo, crashed, hpc, ctxErr, hdrAborted, cw, done, stats,
                   hop, hops, fired, firedEarly, panicked, firstReached,
                   cwForwards, lateWrite, recorded>>
    /\ UNCHANGED <<doneFirst, wobs, mobs>>
    /\ UNCHANGED offPipe

\* TimeoutMiddleware up to the select: the context with its deadline, the
\* done channel and the goroutine running next (StatsMiddleware).
TimeoutMiddleware ==
    /\ mpc = "inner" /\ ~crashed
    /\ mpc' = "select"
    /\ hpc' = "h_run"
    /\ cw' = NewCustomResponseWriter
    /\ UNCHANGED <<reqNo, crashed, ctxErr, hdrAborted, rw, done, stats, hop,
                   hops, fired, firedEarly, panicked, firstReached, cwForwards,
                   lateWrite, recorded>>
    /\ UNCHANGED <<doneFirst, wobs, mobs>>
    /\ UNCHANGED offPipe

\* case <-done:
SelectDone ==
    /\ mpc = "select" /\ ~crashed
    /\ done
    /\ mpc' = "ret"
    /\ UNCHANGED <<reqNo, crashed, hpc, ctxErr, hdrAborted, rw, cw, done,
                   stats, hop, hops, fired, firedEarly, panicked, firstReached,
                   cwForwards, lateWrite, recorded>>
    /\ UNCHANGED <<doneFirst, wobs, mobs>>
    /\ UNCHANGED offPipe

\* case <-ctx.Done(): and the test of ctx.Err()
SelectCtxDone ==
    /\ mpc = "select" /\ ~crashed
    /\ ctxErr # "nil"
    /\ fired' = IF ctxErr = "Canceled" THEN "C" ELSE "T"
    /\ firedEarly' = (hpc \notin {"stats", "close", "exited"})
    /\ mpc' = IF ctxErr = "Canceled" THEN "c_set" ELSE "t_set"
    /\ UNCHANGED <<reqNo, crashed, hpc, ctxErr, hdrAborted, rw, cw, done,
                   stats, hop, hops, panicked, firstReached, cwForwards,
                   lateWrite, recorded>>
    /\ UNCHANGED <<doneFirst, wobs, mobs>>
    /\ UNCHANGED offPipe

\* w.Header().Set("X-DRAP-ABORTED", "C" / "T")
GuardSetAborted ==
    /\ mpc \in {"c_set", "t_set"} /\ ~crashed
    /\ hdrAborted' = IF mpc = "c_set" THEN "C" ELSE "T"
    /\ mpc' = IF mpc = "c_set" THEN "c_wh" ELSE "t_wh"
    /\ UNCHANGED <<reqNo, crashed, hpc, ctxErr, rw, cw, done, stats, hop, hops,
                   fired, firedEarly, panicked, firstReached, cwForwards,
                   lateWrite, recorded>>
    /\ UNCHANGED <<doneFirst, wobs, mobs>>
    /\ UNCHANGED offPipe

\* w.WriteHeader(499) / w.WriteHeader(http.StatusGatewayTimeout)
GuardWriteHeader ==
    /\ mpc \in {"c_wh", "t_wh"} /\ ~crashed
    /\ rw' = RWWriteHeader(rw, IF mpc = "c_wh" THEN StatusClientClosed
                                               ELSE StatusGatewayTimeout)
    /\ mpc' = IF mpc = "c_wh" THEN "ret" ELSE "t_body"
    /\ UNCHANGED <<reqNo, crashed, hpc, ctxErr, hdrAborted, cw, done, stats,
                   hop, hops, fired, firedEarly, panicked, firstReached,
                   cwForwards, lateWrite, recorded>>
    /\ UNCHANGED <<doneFirst, wobs, mobs>>
    /\ UNCHANGED offPipe

\* json.NewEncoder(w).Encode(...) of the timeout body
GuardWriteBody ==
    /\ mpc = "t_body" /\ ~crashed
    /\ rw' = RWWrite(rw, TimeoutBody)
    /\ mpc' = "ret"
    /\ UNCHANGED <<reqNo, crashed, hpc, ctxErr, hdrAborted, cw, done, stats,
                   hop, hops, fired, firedEarly, panicked, firstReached,
                   cwForwards, lateWrite, recorded>>
    /\ UNCHANGED <<doneFirst, wobs, mobs>>
    /\ UNCHANGED offPipe

\* The chain returns to net/http, which finishes the response.
ServeReturn ==
    /\ mpc = "ret" /\ ~crashed
    /\ rw' = RWFinish(rw)
    /\ mpc' = "idle"
    /\ UNCHANGED <<reqNo, crashed, hpc, ctxErr, hdrAborted, cw, done, stats,
                   hop, hops, fired, firedEarly, panicked, firstReached,
                   cwForwards, lateWrite, recorded>>
    /\ UNCHANGED <<doneFirst, wobs, mobs>>
    /\ UNCHANGED offPipe

PipeInit ==
    /\ reqNo = 0
    /\ crashed = FALSE
    /\ mpc = "idle"
    /\ hpc = "none"
    /\ ctxErr = "nil"
    /\ hdrAborted = ""
    /\ rw = NewResponseWriter
    /\ cw = NewCustomResponseWriter
    /\ done = FALSE
    /\ stats = [c \in StatusCodes |-> 0]
    /\ hop = NoOp
    /\ hops = 0
    /\ fired = "none"
    /\ firedEarly = FALSE
    /\ panicked = FALSE
    /\ firstReached = 0
    /\ cwForwards = 0
    /\ lateWrite = FALSE
    /\ recorded = 0
    /\ doneFirst = FALSE
    /\ wobs = NoWrite
    /\ mobs = NoCheck

PipeNext ==
    \/ NewRequest
    \/ \E e \in {"Canceled", "DeadlineExceeded"} : ContextDone(e)
    \/ MaintenanceModeMiddleware
    \/ InterceptorPanic
    \/ PanicRecoveryMiddleware
    \/ TimeoutMiddleware
    \/ SelectDone
    \/ SelectCtxDone
    \/ GuardSetAborted
    \/ GuardWriteHeader
    \/ GuardWriteBody
    \/ ServeReturn
    \/ \E s \in HandlerStatuses : HandlerWriteResponse(s)
    \/ HandlerEncode
    \/ \E c \in HandlerStatuses : HandlerWriteHeader(c)
    \/ WriteResponse
    \/ CWWriteHeader
    \/ CWForwardHeader
    \/ CWWrite
    \/ CWForwardWrite
    \/ HandlerReturn
    \/ HandlerPanic
    \/ StatsMiddleware
    \/ CloseDone

\* The public chain with ops requests switching the maintenance mode, for
\* requests whose context stays alive and whose handler answers through
\* WriteResponse.
MaintNext ==
    \/ \E msg \in Reasons : MaintenanceEnableReason(msg)
    \/ \E now \in Times : MaintenanceEnableStarted(now)
    \/ MaintenanceEnableStore
    \/ MaintenanceDisableStore
    \/ MaintenanceDisableStarted
    \/ MaintenanceDisableReason
    \/ NewRequest
    \/ MaintenanceModeMiddleware
    \/ MaintenanceShow
    \/ TimeoutMiddleware
    \/ \E st \in HandlerStatuses : HandlerWriteResponse(st)
    \/ WriteResponse
    \/ CWWriteHeader
    \/ CWForwardHeader
    \/ CWWrite
    \/ CWForwardWrite
    \/ HandlerReturn
    \/ StatsMiddleware
    \/ CloseDone
    \/ SelectDone
    \/ ServeReturn


(***************************************************************************)
(* Books, JSON and errors.                                                 *)
(***************************************************************************)
Ids == {"b:1", "b:2"}
Titles == {"t1", "t2"}

\* Book{}: the zero value.
ZeroBook == [ID |-> "", Title |-> "", Description |-> "", Author |-> "",
             Price |-> "", CreatedAt |-> 0, UpdatedAt |-> 0]

\* A record absent from a store.
Nil == [nil |-> TRUE]

\* json.Marshal / json.Unmarshal of a Book: the stores and the queue hold
\* the encoded document, never the Book itself.
Marshal(book) == [json |-> book]
Unmarshal(doc) == doc.json

\* A listing of books ([]Book): each book with the number of times it is
\* listed; the order of the listing is left out.
NoBooks == [b \in {} |-> 0]

NumBooks(l) == Cardinality(UNION {{<<b, k>> : k \in 1..l[b]} : b \in DOMAIN l})

\* One entry per record of the store, decoded.
Listing(st) ==
    LET present == {i \in DOMAIN st : st[i] # Nil}
    IN  [b \in {Unmarshal(st[i]) : i \in present} |->
             Cardinality({i \in present : Unmarshal(st[i]) = b})]

\* Outcome of one call of a storage or queue client, drawn by the caller.
Faults == {"ok", "fail"}

CreateQueue == "creation"
UpdateQueue == "updating"
DeleteQueue == "deletion"
Lanes == <<CreateQueue, UpdateQueue, DeleteQueue>>

\* One entry of the trace of a service call: the operation and its error.
Ev(t, arg, err) == [t |-> t, arg |-> arg, err |-> err]

(***************************************************************************)
(* redisBookStorage: the primary store.                                    *)
(***************************************************************************)
\* HSET books id doc
HSet(st, id, doc, f) ==
    IF f = "fail" THEN [store |-> st, err |-> "ErrIO"]
    ELSE [store |-> [st EXCEPT ![id] = doc], err |-> "nil"]

\* HGET books id: a nil reply (redis.Nil) when the field is missing
HGet(st, id, f) ==
    IF f = "fail" THEN [val |-> Nil, err |-> "ErrIO"]
    ELSE IF st[id] = Nil THEN [val |-> Nil, err |-> "redis.Nil"]
    ELSE [val |-> st[id], err |-> "nil"]

\* HDEL books id: an integer reply, the number of fields removed; a missing
\* field is the reply 0, not a nil reply
HDel(st, id, f) ==
    IF f = "fail" THEN [store |-> st, n |-> 0, err |-> "ErrIO"]
    ELSE [store |-> [st EXCEPT ![id] = Nil],
          n |-> IF st[id] = Nil THEN 0 ELSE 1,
          err |-> "nil"]

RedisAdd(st, id, book, f) == HSet(st, id, Marshal(book), f)

RedisGetOne(st, id, f) ==
    LET r == HGet(st, id, f)
    IN  CASE r.err = "redis.Nil" -> [book |-> ZeroBook, err |-> "ErrBookNotFound"]
          [] r.err # "nil"       -> [book |-> ZeroBook, err |-> r.err]
          [] OTHER               -> [book |-> Unmarshal(r.val), err |-> "nil"]

RedisDelete(st, id, f) ==
    LET r == HDel(st, id, f)
    IN  [store |-> r.store,
         err |-> IF r.err = "redis.Nil" THEN "ErrBookNotFound" ELSE r.err]

RedisUpdate(st, id, book, f) ==
    LET r == HSet(st, id, Marshal(book), f)
    IN  [store |-> r.store, book |-> book, err |-> r.err]

\* HVALS books, each value decoded
RedisGetAll(st, f) ==
    IF f = "fail" THEN [books |-> NoBooks, err |-> "ErrIO"]
    ELSE [books |-> Listing(st), err |-> "nil"]

(***************************************************************************)
(* boltBookStorage: the backup store.                                      *)
(***************************************************************************)
BoltAdd(st, id, book, f) ==
    IF f = "fail" THEN [store |-> st, err |-> "ErrIO"]
    ELSE [store |-> [st EXCEPT ![id] = Marshal(book)], err |-> "nil"]

BoltGetOne(st, id, f) ==
    IF f = "fail" THEN [book |-> ZeroBook, err |-> "ErrIO"]
    ELSE IF st[id] = Nil THEN [book |-> ZeroBook, err |-> "ErrBookNotFound"]
    ELSE [book |-> Unmarshal(st[id]), err |-> "nil"]

BoltDelete(st, id, f) ==
    IF f = "fail" THEN [store |-> st, err |-> "ErrIO"]
    ELSE [store |-> [st EXCEPT ![id] = Nil], err |-> "nil"]

\* Mutant of BoltUpdate: only a record that exists is replaced.
BoltUpdateExisting(st, id, book, f) ==
    IF f = "fail" THEN [store |-> st, book |-> book, err |-> "ErrIO"]
    ELSE [store |-> IF st[id] = Nil THEN st
                    ELSE [st EXCEPT ![id] = Marshal(book)],
          book |-> book, err |-> "nil"]

BoltUpdate(st, id, book, f) ==
    IF f = "fail" THEN [store |-> st, book |-> book, err |-> "ErrIO"]
    ELSE [store |-> [st EXCEPT ![id] = Marshal(book)], book |-> book,
          err |-> "nil"]

BoltGetAll(st, f) ==
    IF f = "fail" THEN [books |-> NoBooks, err |-> "ErrIO"]
    ELSE [books |-> Listing(st), err |-> "nil"]

(***************************************************************************)
(* redisQueue.                                                             *)
(***************************************************************************)
\* Mutant of Push: LPUSH, the item goes to the head of the list.
PushFront(q, qid, book, f) ==
    IF f = "fail" THEN [queue |-> q, err |-> "ErrIO"]
    ELSE [queue |-> [q EXCEPT ![qid] = <<Marshal(book)>> \o @], err |-> "nil"]

\* RPUSH qid doc
Push(q, qid, book, f) ==
    IF f = "fail" THEN [queue |-> q, err |-> "ErrIO"]
    ELSE [queue |-> [q EXCEPT ![qid] = Append(@, Marshal(book))], err |-> "nil"]

\* The keys BLPOP serves: the first non-empty list in the order given.
FirstLane(q) ==
    LET full == {i \in 1..Len(Lanes) : q[Lanes[i]] # <<>>}
    IN  Lanes[CHOOSE i \in full : \A j \in full : i <= j]

QueueEmpty(q) == \A i \in 1..Len(Lanes) : q[Lanes[i]] = <<>>

\* BLPOP creation updating deletion 0, then json.Unmarshal of the item
Pop(q, f) ==
    IF f = "fail" THEN [queue |-> q, qid |-> "", book |-> ZeroBook, err |-> "ErrIO"]
    ELSE LET qid == FirstLane(q)
         IN  [queue |-> [q EXCEPT ![qid] = Tail(@)], qid |-> qid,
              book |-> Unmarshal(Head(q[qid])), err |-> "nil"]

(***************************************************************************)
(* BookService.  Each operator is one call: the stores and the queue it    *)
(* leaves, the result it returns, and the trace of the storage and queue   *)
(* calls it made, in order.                                                *)
(***************************************************************************)
\* Mutant of SvcAdd: the early return on a failed write is missing.
SvcAddPushAlways(ps, q, id, book, pf, qf) ==
    LET w == RedisAdd(ps, id, book, pf)
        pu == Push(q, CreateQueue, book, qf)
    IN  [pstore |-> w.store, queue |-> pu.queue, err |-> w.err,
         log |-> <<Ev("p.Add", id, w.err), Ev("q.Push", CreateQueue, pu.err)>>]

SvcAdd(ps, q, id, book, pf, qf) ==
    LET w == RedisAdd(ps, id, book, pf)
        pu == Push(q, CreateQueue, book, qf)
    IN  IF w.err # "nil"
        THEN [pstore |-> ps, queue |-> q, err |-> w.err,
              log |-> <<Ev("p.Add", id, w.err)>>]
        ELSE [pstore |-> w.store, queue |-> pu.queue, err |-> w.err,
              log |-> <<Ev("p.Add", id, w.err),
                        Ev("q.Push", CreateQueue, pu.err)>>]

\* Mutant of SvcGetOne: the backup store is read first.
SvcGetOneBackupFirst(ps, bs, id, pf, bf, cf) ==
    LET b == BoltGetOne(bs, id, bf)
        p == RedisGetOne(ps, id, pf)
    IN  IF b.err = "nil"
        THEN [pstore |-> ps, book |-> b.book, err |-> b.err,
              log |-> <<Ev("b.GetOne", id, b.err)>>]
        ELSE [pstore |-> ps, book |-> p.book, err |-> p.err,
              log |-> <<Ev("b.GetOne", id, b.err), Ev("p.GetOne", id, p.err)>>]

\* Mutant of SvcGetOne: the book read from the backup store is not cached.
SvcGetOneNoBackfill(ps, bs, id, pf, bf, cf) ==
    LET p == RedisGetOne(ps, id, pf)
        b == BoltGetOne(bs, id, bf)
    IN  IF p.err = "nil"
        THEN [pstore |-> ps, book |-> p.book, err |-> p.err,
              log |-> <<Ev("p.GetOne", id, p.err)>>]
        ELSE [pstore |-> ps, book |-> b.book, err |-> b.err,
              log |-> <<Ev("p.GetOne", id, p.err), Ev("b.GetOne", id, b.err)>>]

\* Mutant of SvcGetOne: the return on a failed read of the backup store is
\* missing.
SvcGetOneCacheAlways(ps, bs, id, pf, bf, cf) ==
    LET p == RedisGetOne(ps, id, pf)
        b == BoltGetOne(bs, id, bf)
        c == RedisAdd(ps, id, b.book, cf)
    IN  IF p.err = "nil"
        THEN [pstore |-> ps, book |-> p.book, err |-> p.err,
              log |-> <<Ev("p.GetOne", id, p.err)>>]
        ELSE [pstore |-> c.store, book |-> b.book, err |-> b.err,
              log |-> <<Ev("p.GetOne", id, p.err), Ev("b.GetOne", id, b.err),
                        Ev("p.Add", id, c.err)>>]

SvcGetOne(ps, bs, id, pf, bf, cf) ==
    LET p == RedisGetOne(ps, id, pf)
        b == BoltGetOne(bs, id, bf)
        c == RedisAdd(ps, id, b.book, cf)
    IN  IF p.err = "nil"
        THEN [pstore |-> ps, book |-> p.book, err |-> p.err,
              log |-> <<Ev("p.GetOne", id, p.err)>>]
        ELSE IF b.err # "nil"
        THEN [pstore |-> ps, book |-> b.book, err |-> b.err,
              log |-> <<Ev("p.GetOne", id, p.err), Ev("b.GetOne", id, b.err)>>]
        ELSE [pstore |-> c.store, book |-> b.book, err |-> b.err,
              log |-> <<Ev("p.GetOne", id, p.err), Ev("b.GetOne", id, b.err),
                        Ev("p.Add", id, c.err)>>]

SvcDelete(ps, q, id, pf, qf) ==
    LET w == RedisDelete(ps, id, pf)
        pu == Push(q, DeleteQueue, [ZeroBook EXCEPT !.ID = id], qf)
    IN  IF w.err # "nil"
        THEN [pstore |-> ps, queue |-> q, err |-> w.err,
              log |-> <<Ev("p.Delete", id, w.err)>>]
        ELSE [pstore |-> w.store, queue |-> pu.queue, err |-> w.err,
              log |-> <<Ev("p.Delete", id, w.err),
                        Ev("q.Push", DeleteQueue, pu.err)>>]

\* Mutant of SvcUpdate: the event carries the book as the caller gave it.
SvcUpdatePushUnstamped(ps, q, id, book, now, pf, qf) ==
    LET stamped == [book EXCEPT !.UpdatedAt = now]
        w == RedisUpdate(ps, id, stamped, pf)
        pu == Push(q, UpdateQueue, book, qf)
    IN  IF w.err # "nil"
        THEN [pstore |-> ps, queue |-> q, book |-> w.book, err |-> w.err,
              log |-> <<Ev("p.Update", id, w.err)>>]
        ELSE [pstore |-> w.store, queue |-> pu.queue, book |-> w.book,
              err |-> w.err,
              log |-> <<Ev("p.Update", id, w.err),
                        Ev("q.Push", UpdateQueue, pu.err)>>]

\* Mutant of SvcUpdate: the error of the push is returned to the caller.
SvcUpdateReturnsPushErr(ps, q, id, book, now, pf, qf) ==
    LET stamped == [book EXCEPT !.UpdatedAt = now]
        w == RedisUpdate(ps, id, stamped, pf)
        pu == Push(q, UpdateQueue, stamped, qf)
    IN  IF w.err # "nil"
        THEN [pstore |-> ps, queue |-> q, book |-> w.book, err |-> w.err,
              log |-> <<Ev("p.Update", id, w.err)>>]
        ELSE [pstore |-> w.store, queue |-> pu.queue, book |-> w.book,
              err |-> pu.err,
              log |-> <<Ev("p.Update", id, w.err),
                        Ev("q.Push", UpdateQueue, pu.err)>>]

SvcUpdate(ps, q, id, book, now, pf, qf) ==
    LET stamped == [book EXCEPT !.UpdatedAt = now]
        w == RedisUpdate(ps, id, stamped, pf)
        pu == Push(q, UpdateQueue, stamped, qf)
    IN  IF w.err # "nil"
        THEN [pstore |-> ps, queue |-> q, book |-> w.book, err |-> w.err,
              log |-> <<Ev("p.Update", id, w.err)>>]
        ELSE [pstore |-> w.store, queue |-> pu.queue, book |-> w.book,
              err |-> w.err,
              log |-> <<Ev("p.Update", id, w.err),
                        Ev("q.Push", UpdateQueue, pu.err)>>]

\* Mutant of SvcGetAll: falls back only when the backup call fails and is empty.
SvcGetAllAnd(ps, bs, bf, pf) ==
    LET b == BoltGetAll(bs, bf)
        p == RedisGetAll(ps, pf)
    IN  IF b.err # "nil" /\ NumBooks(b.books) = 0
        THEN [books |-> p.books, err |-> p.err,
              log |-> <<Ev("b.GetAll", "", b.err), Ev("p.GetAll", "", p.err)>>]
        ELSE [books |-> b.books, err |-> b.err,
              log |-> <<Ev("b.GetAll", "", b.err)>>]

SvcGetAll(ps, bs, bf, pf) ==
    LET b == BoltGetAll(bs, bf)
        p == RedisGetAll(ps, pf)
    IN  IF b.err # "nil" \/ NumBooks(b.books) = 0
        THEN [books |-> p.books, err |-> p.err,
              log |-> <<Ev("b.GetAll", "", b.err), Ev("p.GetAll", "", p.err)>>]
        ELSE [books |-> b.books, err |-> b.err,
              log |-> <<Ev("b.GetAll", "", b.err)>>]

\* What a call found when it started, and what it left.
Pre == [p |-> pstore, b |-> bstore, q |-> queue]
Post(ps, q) == [p |-> ps, b |-> bstore, q |-> q]

\* GetOne read the book from the backup store and wrote it to the primary.
Backfilled(c) ==
    /\ c.op = "GetOne"
    /\ Len(c.log) = 3
    /\ c.log[3].err = "nil"

EmptyStore == [i \in Ids |-> Nil]
EmptyQueue == [l \in {CreateQueue, UpdateQueue, DeleteQueue} |-> <<>>]

NoCall == [op |-> "none", id |-> "", arg |-> ZeroBook, book |-> ZeroBook,
           books |-> NoBooks, err |-> "nil", log |-> <<>>,
           pre |-> [p |-> EmptyStore, b |-> EmptyStore, q |-> EmptyQueue],
           post |-> [p |-> EmptyStore, b |-> EmptyStore, q |-> EmptyQueue],
           prev |-> [op |-> "none", id |-> "", book |-> ZeroBook,
                     filled |-> FALSE]]

\* The record of a call: its inputs, its result, and the call before it.
Call(op, id, arg, ps, q, r) ==
    [op |-> op, id |-> id, arg |-> arg,
     book |-> IF op \in {"GetOne", "Update"} THEN r.book ELSE ZeroBook,
     books |-> IF op = "GetAll" THEN r.books ELSE NoBooks,
     err |-> r.err, log |-> r.log,
     pre |-> Pre, post |-> Post(ps, q),
     prev |-> [op |-> ret.op, id |-> ret.id, book |-> ret.book,
               filled |-> Backfilled(ret)]]

\* CreateBook has set the id and the timestamps of the book it adds.
Add(id, title, now, pf, qf) ==
    /\ calls < MaxCalls
    /\ LET book == [ZeroBook EXCEPT !.ID = id, !.Title = title,
                                    !.CreatedAt = now, !.UpdatedAt = now]
           r == SvcAdd(pstore, queue, id, book, pf, qf)
       IN  /\ pstore' = r.pstore
           /\ queue' = r.queue
           /\ ret' = Call("Add", id, book, r.pstore, r.queue, r)
    /\ calls' = calls + 1
    /\ UNCHANGED bstore
    /\ UNCHANGED offStore

GetOne(id, pf, bf, cf) ==
    /\ calls < MaxCalls
    /\ LET r == SvcGetOne(pstore, bstore, id, pf, bf, cf)
       IN  /\ pstore' = r.pstore
           /\ ret' = Call("GetOne", id, ZeroBook, r.pstore, queue, r)
    /\ calls' = calls + 1
    /\ UNCHANGED <<bstore, queue>>
    /\ UNCHANGED offStore

Delete(id, pf, qf) ==
    /\ calls < MaxCalls
    /\ LET r == SvcDelete(pstore, queue, id, pf, qf)
       IN  /\ pstore' = r.pstore
           /\ queue' = r.queue
           /\ ret' = Call("Delete", id, ZeroBook, r.pstore, r.queue, r)
    /\ calls' = calls + 1
    /\ UNCHANGED bstore
    /\ UNCHANGED offStore

\* UpdateBook hands over the decoded body; the service stamps updatedAt.
Update(id, title, now, pf, qf) ==
    /\ calls < MaxCalls
    /\ LET book == [ZeroBook EXCEPT !.ID = id, !.Title = title]
           r == SvcUpdate(pstore, queue, id, book, now, pf, qf)
       IN  /\ pstore' = r.pstore
           /\ queue' = r.queue
           /\ ret' = Call("Update", id, book, r.pstore, r.queue, r)
    /\ calls' = calls + 1
    /\ UNCHANGED bstore
    /\ UNCHANGED offStore

GetAll(bf, pf) ==
    /\ calls < MaxCalls
    /\ LET r == SvcGetAll(pstore, bstore, bf, pf)
       IN  ret' = Call("GetAll", "", ZeroBook, pstore, queue, r)
    /\ calls' = calls + 1
    /\ UNCHANGED <<pstore, bstore, queue>>
    /\ UNCHANGED offStore

(***************************************************************************)
(* boltDBConsumer.Consume: one turn of the loop, a pop and its dispatch.   *)
(***************************************************************************)
\* Mutant of Apply: every event is handed to Add.
ApplyAllAdd(bs, qid, book, f) == BoltAdd(bs, book.ID, book, f).store

\* switch qid: the store the call on the backup store leaves
Apply(bs, qid, book, f) ==
    CASE qid = CreateQueue -> BoltAdd(bs, book.ID, book, f).store
      [] qid = UpdateQueue -> BoltUpdate(bs, book.ID, book, f).store
      [] qid = DeleteQueue -> BoltDelete(bs, book.ID, f).store
      [] OTHER -> bs

Consume(popf, af) ==
    /\ popf = "ok" => ~QueueEmpty(queue)
    /\ LET r == Pop(queue, popf)
       IN  /\ queue' = r.queue
           /\ bstore' = IF r.err # "nil" THEN bstore
                        ELSE Apply(bstore, r.qid, r.book, af)
    /\ UNCHANGED <<pstore, calls, ret>>
    /\ UNCHANGED offStore

(***************************************************************************)
(* boltDBConsumer.Consume step by step: the pop, the test of its error     *)
(* against ctx.Err(), and the dispatch on the lane; with the producers of  *)
(* the lanes and the cancellation of the context App.Run hands over.       *)
(***************************************************************************)
\* The error of the call Apply makes on the backup store.
ApplyErr(bs, qid, book, f) ==
    CASE qid = CreateQueue -> BoltAdd(bs, book.ID, book, f).err
      [] qid = UpdateQueue -> BoltUpdate(bs, book.ID, book, f).err
      [] qid = DeleteQueue -> BoltDelete(bs, book.ID, f).err
      [] OTHER -> "nil"

NoTurn == [qid |-> "", book |-> ZeroBook, err |-> "nil", aerr |-> "nil",
           pctx |-> "nil", actx |-> "nil"]

\* The books the service pushes on a lane: Delete pushes Book{ID: id}.
EventBooks(qid) ==
    IF qid = DeleteQueue
    THEN {[ZeroBook EXCEPT !.ID = id] : id \in Ids}
    ELSE {[ZeroBook EXCEPT !.ID = id, !.Title = t] : id \in Ids, t \in Titles}

TotalPushed == Len(pushed[CreateQueue]) + Len(pushed[UpdateQueue])
                   + Len(pushed[DeleteQueue])

\* bs.queue.Push(ctx, qid, book) of a service call.
Enqueue(qid, book, f) ==
    /\ TotalPushed < MaxEvents
    /\ LET r == Push(queue, qid, book, f)
       IN  /\ queue' = r.queue
           /\ pushed' = IF r.err = "nil"
                        THEN [pushed EXCEPT ![qid] = Append(@, Marshal(book))]
                        ELSE pushed
    /\ UNCHANGED <<pstore, bstore, calls, ret>>
    /\ UNCHANGED <<cctx, cpc, turn, turns, consumeRet, applied>>
    /\ UNCHANGED <<pipeVars, maintVars, ctrVars, extVars>>

\* The errgroup context is cancelled: a signal, or a failed goroutine.
CancelConsumer ==
    /\ cctx = "nil"
    /\ cctx' = "Canceled"
    /\ UNCHANGED <<cpc, turn, turns, consumeRet, pushed, applied>>
    /\ UNCHANGED <<pipeVars, maintVars, storeVars, ctrVars, extVars>>

\* qid, book, err = bc.queue.Pop(ctx, qids...): blocks while every lane is
\* empty, or fails.  pctx is ctx.Err() as Pop returns, actx the ctx.Err() of
\* the context handed to the backup store.
ConsumePop(f) ==
    /\ cpc = "pop" /\ turns < MaxTurns
    /\ f = "ok" => ~QueueEmpty(queue)
    /\ LET r == Pop(queue, f)
       IN  /\ queue' = r.queue
           /\ turn' = [qid |-> r.qid, book |-> r.book, err |-> r.err,
                       aerr |-> "nil", pctx |-> cctx, actx |-> "nil"]
    /\ cpc' = "popped"
    /\ turns' = turns + 1
    /\ UNCHANGED <<pstore, bstore, calls, ret>>
    /\ UNCHANGED <<cctx, consumeRet, pushed, applied>>
    /\ UNCHANGED <<pipeVars, maintVars, ctrVars, extVars>>

\* Mutant of ConsumeExit: a done context ends the loop whatever Pop returned.
ConsumeExitOnDone ==
    /\ cpc = "popped"
    /\ cctx # "nil"
    /\ cpc' = "exited"
    /\ consumeRet' = "nil"
    /\ UNCHANGED <<cctx, turn, turns, pushed, applied>>
    /\ UNCHANGED <<pipeVars, maintVars, storeVars, ctrVars, extVars>>

\* if err != nil && ctx.Err() != nil { return nil }
ConsumeExit ==
    /\ cpc = "popped"
    /\ turn.err # "nil" /\ cctx # "nil"
    /\ cpc' = "exited"
    /\ consumeRet' = "nil"
    /\ UNCHANGED <<cctx, turn, turns, pushed, applied>>
    /\ UNCHANGED <<pipeVars, maintVars, storeVars, ctrVars, extVars>>

\* Mutant of ConsumeRetry: the error of the pop ends the loop.
ConsumeRetryReturns ==
    /\ cpc = "popped"
    /\ turn.err # "nil" /\ cctx = "nil"
    /\ cpc' = "exited"
    /\ consumeRet' = turn.err
    /\ UNCHANGED <<cctx, turn, turns, pushed, applied>>
    /\ UNCHANGED <<pipeVars, maintVars, storeVars, ctrVars, extVars>>

\* if err != nil { continue }
ConsumeRetry ==
    /\ cpc = "popped"
    /\ turn.err # "nil" /\ cctx = "nil"
    /\ cpc' = "pop"
    /\ UNCHANGED <<cctx, turn, turns, consumeRet, pushed, applied>>
    /\ UNCHANGED <<pipeVars, maintVars, storeVars, ctrVars, extVars>>

\* The cases of the switch; any other qid takes the default branch.
Dispatched == {CreateQueue, UpdateQueue, DeleteQueue}

\* A qid Consume may be started with besides the three lanes.
OtherQueues == {"other"}

\* Pop reports an event of a lane outside the three: Consume takes any
\* qids and hands them to the Queuer (App.Run passes the three).
ConsumePopOther(qid, book) ==
    /\ cpc = "pop" /\ turns < MaxTurns
    /\ turn' = [qid |-> qid, book |-> book, err |-> "nil", aerr |-> "nil",
                pctx |-> cctx, actx |-> "nil"]
    /\ cpc' = "popped"
    /\ turns' = turns + 1
    /\ UNCHANGED storeVars
    /\ UNCHANGED <<cctx, consumeRet, pushed, applied>>
    /\ UNCHANGED <<pipeVars, maintVars, ctrVars, extVars>>

\* Mutant of ConsumeDispatch: a rejected event is pushed back on its lane.
ConsumeDispatchRequeue(f) ==
    /\ cpc = "popped"
    /\ turn.err = "nil"
    /\ LET aerr == ApplyErr(bstore, turn.qid, turn.book, f)
       IN  /\ bstore' = Apply(bstore, turn.qid, turn.book, f)
           /\ turn' = [turn EXCEPT !.aerr = aerr, !.actx = cctx]
           /\ applied' = IF turn.qid \in Dispatched
                          THEN Append(applied, [qid |-> turn.qid,
                                                book |-> turn.book, err |-> aerr])
                          ELSE applied
           /\ queue' = IF aerr = "nil" THEN queue
                       ELSE Push(queue, turn.qid, turn.book, "ok").queue
    /\ cpc' = "pop"
    /\ UNCHANGED <<pstore, calls, ret>>
    /\ UNCHANGED <<cctx, turns, consumeRet, pushed>>
    /\ UNCHANGED <<pipeVars, maintVars, ctrVars, extVars>>

\* switch qid { ... }: the call on the backup store; its error is logged.
ConsumeDispatch(f) ==
    /\ cpc = "popped"
    /\ turn.err = "nil"
    /\ LET aerr == ApplyErr(bstore, turn.qid, turn.book, f)
       IN  /\ bstore' = Apply(bstore, turn.qid, turn.book, f)
           /\ turn' = [turn EXCEPT !.aerr = aerr, !.actx = cctx]
           /\ applied' = IF turn.qid \in Dispatched
                          THEN Append(applied, [qid |-> turn.qid,
                                                book |-> turn.book, err |-> aerr])
                          ELSE applied
    /\ cpc' = "pop"
    /\ UNCHANGED <<pstore, queue, calls, ret>>
    /\ UNCHANGED <<cctx, turns, consumeRet, pushed>>
    /\ UNCHANGED <<pipeVars, maintVars, ctrVars, extVars>>

ConsumerInit ==
    /\ cctx = "nil"
    /\ cpc = "pop"
    /\ turn = NoTurn
    /\ turns = 0
    /\ consumeRet = "none"
    /\ pushed = EmptyQueue
    /\ applied = <<>>

ConsumerNext ==
    \/ \E qid \in {CreateQueue, UpdateQueue, DeleteQueue}, f \in Faults :
           \E book \in EventBooks(qid) : Enqueue(qid, book, f)
    \/ CancelConsumer
    \/ \E f \in Faults : ConsumePop(f)
    \/ ConsumeExit
    \/ ConsumeRetry
    \/ \E f \in Faults : ConsumeDispatch(f)

\* The consumer started with a further lane.
ConsumerLanesNext ==
    \/ ConsumerNext
    \/ \E qid \in OtherQueues, book \in EventBooks(CreateQueue) :
           ConsumePopOther(qid, book)

(***************************************************************************)
(* The consumer running for good: the service keeps pushing, every client  *)
(* call succeeds and the context stays live.  The logs of pushed and       *)
(* applied events are not kept.                                            *)
(***************************************************************************)
\* bs.queue.Push(ctx, qid, book) of a service call.
DrainEnqueue(qid, book) ==
    /\ Len(queue[qid]) < MaxLane
    /\ queue' = Push(queue, qid, book, "ok").queue
    /\ UNCHANGED <<pstore, bstore, calls, ret>>
    /\ UNCHANGED consVars
    /\ UNCHANGED <<pipeVars, maintVars, ctrVars, extVars>>

\* qid, book, err = bc.queue.Pop(ctx, qids...)
DrainPop ==
    /\ cpc = "pop" /\ cctx = "nil"
    /\ ~QueueEmpty(queue)
    /\ LET r == Pop(queue, "ok")
       IN  /\ queue' = r.queue
           /\ turn' = [qid |-> r.qid, book |-> r.book, err |-> r.err,
                       aerr |-> "nil", pctx |-> cctx, actx |-> "nil"]
    /\ cpc' = "popped"
    /\ UNCHANGED <<pstore, bstore, calls, ret>>
    /\ UNCHANGED <<cctx, turns, consumeRet, pushed, applied>>
    /\ UNCHANGED <<pipeVars, maintVars, ctrVars, extVars>>

\* switch qid { ... }: the call on the backup store.
DrainDispatch ==
    /\ cpc = "popped"
    /\ turn.err = "nil"
    /\ bstore' = Apply(bstore, turn.qid, turn.book, "ok")
    /\ turn' = [turn EXCEPT !.aerr = ApplyErr(bstore, turn.qid, turn.book, "ok"),
                            !.actx = cctx]
    /\ cpc' = "pop"
    /\ UNCHANGED <<pstore, queue, calls, ret>>
    /\ UNCHANGED <<cctx, turns, consumeRet, pushed, applied>>
    /\ UNCHANGED <<pipeVars, maintVars, ctrVars, extVars>>

DrainNext ==
    \/ \E qid \in {CreateQueue, UpdateQueue, DeleteQueue} :
           \E book \in EventBooks(qid) : DrainEnqueue(qid, book)
    \/ DrainPop
    \/ DrainDispatch

\* The goroutine of the consumer keeps running: a pop that can return
\* returns, and the switch after it runs.
DrainFairness == WF_vars(DrainPop) /\ WF_vars(DrainDispatch)

(***************************************************************************)
(* RequestsCounterMiddleware under concurrent requests: each client is a   *)
(* request on its own goroutine.                                           *)
(***************************************************************************)
Clients == 1..MaxClients

\* Mutant of RequestsCounterMiddleware: a load and a store instead of the
\* atomic add, the load possibly stale.
RequestsCounterLoadStore(c) ==
    /\ rpc[c] = "new"
    /\ \E v \in 0..called :
           /\ called' = v + 1
           /\ rnum' = [rnum EXCEPT ![c] = v + 1]
    /\ rpc' = [rpc EXCEPT ![c] = "counted"]
    /\ UNCHANGED offCounter

\* atomic.AddUint64(&api.stats.called, 1), its result put in the context
RequestsCounterMiddleware(c) ==
    /\ rpc[c] = "new"
    /\ called' = called + 1
    /\ rnum' = [rnum EXCEPT ![c] = called + 1]
    /\ rpc' = [rpc EXCEPT ![c] = "counted"]
    /\ UNCHANGED offCounter

\* next(w, r, ps)
CounterCallsNext(c) ==
    /\ rpc[c] = "counted"
    /\ rpc' = [rpc EXCEPT ![c] = "next"]
    /\ UNCHANGED <<called, rnum>>
    /\ UNCHANGED offCounter

CounterInit ==
    /\ called = 0
    /\ rpc = [c \in Clients |-> "new"]
    /\ rnum = [c \in Clients |-> 0]

CounterNext ==
    \/ \E c \in Clients : RequestsCounterMiddleware(c)
    \/ \E c \in Clients : CounterCallsNext(c)

(***************************************************************************)
(* Middlewares.Chain.  A handler is a closure: the terminal handler, or an  *)
(* interceptor applied to the handler it calls as next.  The interceptors   *)
(* are those of TestChain: each records its entry and calls next once.      *)
(***************************************************************************)
Interceptors == {"A", "B", "C"}

\* handler := func(w, r, ps) { queue <- 4; ch = true }
Terminal == [handler |-> "h"]

\* middlewareX(next): the closure over next
Wrap(i, next) == [mw |-> i, next |-> next]

IsWrap(h) == "mw" \in DOMAIN h

NoHandler == [handler |-> "none"]

\* The lists of at most n interceptors.
RECURSIVE Lists(_)
Lists(n) ==
    IF n = 0 THEN {<<>>}
    ELSE Lists(n - 1) \cup
         {Append(m, i) : m \in {l \in Lists(n - 1) : Len(l) = n - 1},
                         i \in Interceptors}

\* Mutant of ChainLoop: the list is walked from its first element.
RECURSIVE ChainLoopForward(_, _, _)
ChainLoopForward(m, i, handle) ==
    IF i > Len(m) THEN handle
    ELSE ChainLoopForward(m, i + 1, Wrap(m[i], handle))

\* Mutant of Chain: handle starts from the first interceptor.
ChainForward(m, h) ==
    IF Len(m) = 0 THEN h
    ELSE ChainLoopForward(m, 2, Wrap(m[1], h))

\* for i := lg - 2; i >= 0; i-- { handle = (*m)[i](handle) }
RECURSIVE ChainLoop(_, _, _)
ChainLoop(m, i, handle) ==
    IF i < 1 THEN handle
    ELSE ChainLoop(m, i - 1, Wrap(m[i], handle))

\* if len(*m) == 0 { return h }; handle := (*m)[lg-1](h); the loop
Chain(m, h) ==
    IF Len(m) = 0 THEN h
    ELSE ChainLoop(m, Len(m) - 1, Wrap(m[Len(m)], h))

Invocations == 1..MaxInvocations

NoInvocation == [pc |-> "idle", cur |-> NoHandler, stack |-> <<>>,
                 trace |-> <<>>]

\* pub, ops := api.MiddlewaresStacks(); chained := (&middlewares).Chain(handler)
BuildChain(m) ==
    /\ chained = NoHandler
    /\ mws' = m
    /\ chained' = Chain(m, Terminal)
    /\ UNCHANGED inv
    /\ UNCHANGED offChain

\* chained(w, req, nil), on the goroutine of a request
Invoke(k) ==
    /\ chained # NoHandler
    /\ inv[k].pc = "idle"
    /\ inv' = [inv EXCEPT ![k] = [pc |-> "call", cur |-> chained,
                                  stack |-> <<>>, trace |-> <<>>]]
    /\ UNCHANGED <<mws, chained>>
    /\ UNCHANGED offChain

\* An interceptor is entered: queue <- n; cx = true; next(w, r, ps)
EnterInterceptor(k) ==
    /\ inv[k].pc = "call"
    /\ IsWrap(inv[k].cur)
    /\ inv' = [inv EXCEPT ![k] =
                  [pc |-> "call", cur |-> inv[k].cur.next,
                   stack |-> <<inv[k].cur.mw>> \o inv[k].stack,
                   trace |-> Append(inv[k].trace,
                                    [ev |-> "enter", of |-> inv[k].cur.mw])]]
    /\ UNCHANGED <<mws, chained>>
    /\ UNCHANGED offChain

\* The terminal handler runs and returns.
RunTerminal(k) ==
    /\ inv[k].pc = "call"
    /\ ~IsWrap(inv[k].cur)
    /\ inv' = [inv EXCEPT ![k] =
                  [pc |-> "return", cur |-> inv[k].cur, stack |-> inv[k].stack,
                   trace |-> Append(inv[k].trace,
                                    [ev |-> "run", of |-> inv[k].cur.handler])]]
    /\ UNCHANGED <<mws, chained>>
    /\ UNCHANGED offChain

\* next returned: the innermost interceptor still running returns.
ReturnInterceptor(k) ==
    /\ inv[k].pc = "return"
    /\ inv[k].stack # <<>>
    /\ inv' = [inv EXCEPT ![k] =
                  [pc |-> "return", cur |-> inv[k].cur,
                   stack |-> Tail(inv[k].stack),
                   trace |-> Append(inv[k].trace,
                                    [ev |-> "exit", of |-> Head(inv[k].stack)])]]
    /\ UNCHANGED <<mws, chained>>
    /\ UNCHANGED offChain

\* The outermost closure returned to the caller.
InvocationDone(k) ==
    /\ inv[k].pc = "return"
    /\ inv[k].stack = <<>>
    /\ inv' = [inv EXCEPT ![k].pc = "done"]
    /\ UNCHANGED <<mws, chained>>
    /\ UNCHANGED offChain

ChainInit ==
    /\ mws = <<>>
    /\ chained = NoHandler
    /\ inv = [k \in Invocations |-> NoInvocation]

ChainNext ==
    \/ \E m \in Lists(MaxChain) : BuildChain(m)
    \/ \E k \in Invocations : Invoke(k)
    \/ \E k \in Invocations : EnterInterceptor(k)
    \/ \E k \in Invocations : RunTerminal(k)
    \/ \E k \in Invocations : ReturnInterceptor(k)
    \/ \E k \in Invocations : InvocationDone(k)

(***************************************************************************)
(* The book handlers of APIHandler: each action is one request served, the *)
(* decoding and the validation of its input, the calls of the book service *)
(* and the response handed to WriteResponse / WriteErrorResponse.          *)
(***************************************************************************)
\* ctx.Err() of the request when the response is written.
CtxErrs == {"nil", "DeadlineExceeded", "Canceled"}

\* The :id of the path; "b:zz" is no uuid behind the prefix.
PathIds == Ids \cup {"b:zz"}

\* IDsHandler.IsValid
IsValid(id) == id \in Ids

BookFields == {"ID", "Title", "Description", "Author", "Price", "CreatedAt"}

\* Decoded bodies: every field present, one field empty or missing, or {}.
FullBodies ==
    {[ZeroBook EXCEPT !.ID = id, !.Title = t, !.Description = "d",
                      !.Author = "a", !.Price = "p", !.CreatedAt = c] :
         id \in Ids, t \in Titles, c \in Times}

Bodies ==
    FullBodies \cup {ZeroBook}
        \cup {[b EXCEPT ![f] = ZeroBook[f]] : b \in FullBodies, f \in BookFields}

\* A request body: whether json Decode accepts it, and the Book it leaves.
Requests == [decodes : BOOLEAN, book : Bodies]

NoRequest == [decodes |-> TRUE, book |-> ZeroBook]

\* Mutant of ValidateCreateBookRequestBody: no field is required.
ValidateNothing(book) == "nil"

\* ValidateCreateBookRequestBody: the error of the first field missing
ValidateCreateBookRequestBody(book) ==
    CASE book.Title = ""       -> "title is required"
      [] book.Description = "" -> "description is required"
      [] book.Author = ""      -> "author is required"
      [] book.Price = ""       -> "price is required"
      [] OTHER                 -> "nil"

\* Mutant of ValidateUpdateBookRequestBody: id and created_at are not
\* required.
ValidateUpdateAsCreate(book) == ValidateCreateBookRequestBody(book)

ValidateUpdateBookRequestBody(book) ==
    CASE ValidateCreateBookRequestBody(book) # "nil" ->
             ValidateCreateBookRequestBody(book)
      [] book.ID = ""       -> "id is required"
      [] book.CreatedAt = 0 -> "created_at is required"
      [] OTHER              -> "nil"

\* One call of api.bookService and the error it returned.
SvcCall(op, err) == [op |-> op, err |-> err]

\* The code WriteResponse / WriteErrorResponse hands to WriteHeader.
WriteCode(ctx, status) ==
    CASE ctx = "DeadlineExceeded" -> StatusGatewayTimeout
      [] ctx = "Canceled"         -> StatusClientClosed
      [] OTHER                    -> status

\* The response of a handler: status, message and data it built, the code
\* sent and whether the JSON body was encoded, with the request served and
\* the calls made on the book service.
Response(h, id, req, ctx, status, message, book, books, text, svc) ==
    [handler |-> h, id |-> id, req |-> req, ctx |-> ctx,
     status |-> status, message |-> message,
     book |-> book, books |-> books, text |-> text,
     code |-> WriteCode(ctx, status), body |-> (ctx = "nil"),
     svc |-> svc]

NoResponse ==
    [handler |-> "none", id |-> "", req |-> NoRequest, ctx |-> "nil",
     status |-> 0, message |-> "", book |-> ZeroBook, books |-> NoBooks,
     text |-> "", code |-> 0, body |-> FALSE, svc |-> <<>>]

CreateBook(req, newid, now, ctx, pf, qf) ==
    /\ served < MaxServed
    /\ LET verr == ValidateCreateBookRequestBody(req.book)
           book == [req.book EXCEPT !.ID = newid, !.CreatedAt = now,
                                    !.UpdatedAt = now]
           r == SvcAdd(pstore, queue, newid, book, pf, qf)
       IN  IF ~req.decodes
           THEN /\ resp' = Response("CreateBook", "", req, ctx, StatusBadRequest,
                                    "failed to create the book", req.book,
                                    NoBooks, "", <<>>)
                /\ UNCHANGED <<pstore, queue>>
           ELSE IF verr # "nil"
           THEN /\ resp' = Response("CreateBook", "", req, ctx, StatusBadRequest,
                                    "failed to create the book", ZeroBook,
                                    NoBooks, verr, <<>>)
                /\ UNCHANGED <<pstore, queue>>
           ELSE /\ pstore' = r.pstore
                /\ queue' = r.queue
                /\ resp' =
                     IF r.err # "nil"
                     THEN Response("CreateBook", "", req, ctx,
                                   StatusInternalServerError,
                                   "failed to create the book", book, NoBooks,
                                   "", <<SvcCall("Add", r.err)>>)
                     ELSE Response("CreateBook", "", req, ctx, StatusCreated,
                                   "Book created successfully.", book, NoBooks,
                                   "", <<SvcCall("Add", r.err)>>)
    /\ served' = served + 1
    /\ UNCHANGED <<bstore, calls, ret>>
    /\ UNCHANGED offHandler

GetAllBooks(ctx, bf, pf) ==
    /\ served < MaxServed
    /\ LET r == SvcGetAll(pstore, bstore, bf, pf)
       IN  resp' =
             IF r.err # "nil"
             THEN Response("GetAllBooks", "", NoRequest, ctx,
                           StatusInternalServerError, "failed to get all books",
                           ZeroBook, r.books, "", <<SvcCall("GetAll", r.err)>>)
             ELSE Response("GetAllBooks", "", NoRequest, ctx, StatusOK,
                           "All books fetched successfully.", ZeroBook, r.books,
                           "", <<SvcCall("GetAll", r.err)>>)
    /\ served' = served + 1
    /\ UNCHANGED <<pstore, bstore, queue, calls, ret>>
    /\ UNCHANGED offHandler

GetOneBook(id, ctx, pf, bf, cf) ==
    /\ served < MaxServed
    /\ IF ~IsValid(id)
       THEN /\ resp' = Response("GetOneBook", id, NoRequest, ctx,
                                StatusBadRequest, "book id provided is not valid",
                                ZeroBook, NoBooks, "", <<>>)
            /\ UNCHANGED pstore
       ELSE LET r == SvcGetOne(pstore, bstore, id, pf, bf, cf)
                svc == <<SvcCall("GetOne", r.err)>>
            IN  /\ pstore' = r.pstore
                /\ resp' =
                     CASE r.err = "ErrBookNotFound" ->
                              Response("GetOneBook", id, NoRequest, ctx,
                                       StatusNotFound, "book does not exist",
                                       r.book, NoBooks, "", svc)
                       [] r.err # "nil" ->
                              Response("GetOneBook", id, NoRequest, ctx,
                                       StatusInternalServerError,
                                       "failed to create the book", r.book,
                                       NoBooks, "", svc)
                       [] OTHER ->
                              Response("GetOneBook", id, NoRequest, ctx,
                                       StatusOK, "Book fetched successfully.",
                                       r.book, NoBooks, "", svc)
    /\ served' = served + 1
    /\ UNCHANGED <<bstore, queue, calls, ret>>
    /\ UNCHANGED offHandler

\* Mutant of DeleteOneBookResponse: the not-found of the delete is one more
\* failure of the delete.
DeleteOneBookDeleteFails(id, ctx, g, d) ==
    CASE ~IsValid(id) ->
             Response("DeleteOneBook", id, NoRequest, ctx, StatusBadRequest,
                      "book id provided is not valid", ZeroBook, NoBooks, "",
                      <<>>)
      [] g.err = "ErrBookNotFound" ->
             Response("DeleteOneBook", id, NoRequest, ctx, StatusNotFound,
                      "book does not exist", g.book, NoBooks, "",
                      <<SvcCall("GetOne", g.err)>>)
      [] g.err # "nil" ->
             Response("DeleteOneBook", id, NoRequest, ctx,
                      StatusInternalServerError,
                      "failed to check if the book exist", g.book, NoBooks, "",
                      <<SvcCall("GetOne", g.err)>>)
      [] d.err # "nil" ->
             Response("DeleteOneBook", id, NoRequest, ctx,
                      StatusInternalServerError, "failed to delete the book",
                      g.book, NoBooks, "",
                      <<SvcCall("GetOne", g.err), SvcCall("Delete", d.err)>>)
      [] OTHER ->
             Response("DeleteOneBook", id, NoRequest, ctx, StatusOK,
                      "Book deleted successfully.", g.book, NoBooks, "",
                      <<SvcCall("GetOne", g.err), SvcCall("Delete", d.err)>>)

\* DeleteOneBook, given what bookService.GetOne returns (g) and what
\* bookService.Delete returns when it is called (d).
DeleteOneBookResponse(id, ctx, g, d) ==
    CASE ~IsValid(id) ->
             Response("DeleteOneBook", id, NoRequest, ctx, StatusBadRequest,
                      "book id provided is not valid", ZeroBook, NoBooks, "",
                      <<>>)
      [] g.err = "ErrBookNotFound" ->
             Response("DeleteOneBook", id, NoRequest, ctx, StatusNotFound,
                      "book does not exist", g.book, NoBooks, "",
                      <<SvcCall("GetOne", g.err)>>)
      [] g.err # "nil" ->
             Response("DeleteOneBook", id, NoRequest, ctx,
                      StatusInternalServerError,
                      "failed to check if the book exist", g.book, NoBooks, "",
                      <<SvcCall("GetOne", g.err)>>)
      [] d.err = "ErrBookNotFound" ->
             Response("DeleteOneBook", id, NoRequest, ctx, StatusNotFound,
                      "book does not exist", g.book, NoBooks, "",
                      <<SvcCall("GetOne", g.err), SvcCall("Delete", d.err)>>)
      [] d.err # "nil" ->
             Response("DeleteOneBook", id, NoRequest, ctx,
                      StatusInternalServerError, "failed to delete the book",
                      g.book, NoBooks, "",
                      <<SvcCall("GetOne", g.err), SvcCall("Delete", d.err)>>)
      [] OTHER ->
             Response("DeleteOneBook", id, NoRequest, ctx, StatusOK,
                      "Book deleted successfully.", g.book, NoBooks, "",
                      <<SvcCall("GetOne", g.err), SvcCall("Delete", d.err)>>)

\* The service was not called.
NoAnswer == [book |-> ZeroBook, err |-> "nil"]

DeleteOneBook(id, ctx, pf, bf, cf, df, qf) ==
    /\ served < MaxServed
    /\ IF ~IsValid(id)
       THEN /\ resp' = DeleteOneBookResponse(id, ctx, NoAnswer, NoAnswer)
            /\ UNCHANGED <<pstore, queue>>
       ELSE LET g == SvcGetOne(pstore, bstore, id, pf, bf, cf)
                d == SvcDelete(g.pstore, queue, id, df, qf)
            IN  /\ resp' = DeleteOneBookResponse(id, ctx, g, d)
                /\ IF g.err = "nil"
                   THEN pstore' = d.pstore /\ queue' = d.queue
                   ELSE pstore' = g.pstore /\ queue' = queue
    /\ served' = served + 1
    /\ UNCHANGED <<bstore, calls, ret>>
    /\ UNCHANGED offHandler

\* What a BookServiceProvider may answer to GetOne and to Delete, as the
\* mocks of TestDeleteOneBook_MissingBook do.
SvcErrs == {"nil", "ErrBookNotFound", "ErrIO"}

MockGetOne == [book : FullBodies \cup {ZeroBook}, err : SvcErrs]

MockDelete == [err : SvcErrs]

\* DeleteOneBook served by a handler built on a mock.
DeleteOneBookMock(id, ctx, g, d) ==
    /\ served < MaxServed
    /\ resp' = DeleteOneBookResponse(id, ctx, g, d)
    /\ served' = served + 1
    /\ UNCHANGED storeVars
    /\ UNCHANGED offHandler

UpdateBook(req, now, ctx, pf, qf) ==
    /\ served < MaxServed
    /\ LET verr == ValidateUpdateBookRequestBody(req.book)
       IN  IF ~req.decodes
           THEN /\ resp' = Response("UpdateBook", "", req, ctx, StatusBadRequest,
                                    "failed to update the book", req.book,
                                    NoBooks, "", <<>>)
                /\ UNCHANGED <<pstore, queue>>
           ELSE IF verr # "nil"
           THEN /\ resp' = Response("UpdateBook", "", req, ctx, StatusBadRequest,
                                    "failed to update the book", ZeroBook,
                                    NoBooks, verr, <<>>)
                /\ UNCHANGED <<pstore, queue>>
           ELSE LET r == SvcUpdate(pstore, queue, req.book.ID, req.book, now,
                                   pf, qf)
                IN  /\ pstore' = r.pstore
                    /\ queue' = r.queue
                    /\ resp' =
                         IF r.err # "nil"
                         THEN Response("UpdateBook", "", req, ctx,
                                       StatusInternalServerError,
                                       "failed to update the book", r.book,
                                       NoBooks, "", <<SvcCall("Update", r.err)>>)
                         ELSE Response("UpdateBook", "", req, ctx, StatusOK,
                                       "Book updated successfully.", r.book,
                                       NoBooks, "", <<SvcCall("Update", r.err)>>)
    /\ served' = served + 1
    /\ UNCHANGED <<bstore, calls, ret>>
    /\ UNCHANGED offHandler

HandlerInit ==
    /\ resp = NoResponse
    /\ served = 0

\* The handlers on the book service, with the consumer replicating.
HandlersNext ==
    \/ \E req \in Requests, newid \in Ids, now \in Times, ctx \in CtxErrs,
          pf \in Faults, qf \in Faults : CreateBook(req, newid, now, ctx, pf, qf)
    \/ \E ctx \in CtxErrs, bf \in Faults, pf \in Faults : GetAllBooks(ctx, bf, pf)
    \/ \E id \in PathIds, ctx \in CtxErrs, pf \in Faults, bf \in Faults,
          cf \in Faults : GetOneBook(id, ctx, pf, bf, cf)
    \/ \E id \in PathIds, ctx \in CtxErrs, pf \in Faults, bf \in Faults,
          cf \in Faults, df \in Faults, qf \in Faults :
           DeleteOneBook(id, ctx, pf, bf, cf, df, qf)
    \/ \E req \in Requests, now \in Times, ctx \in CtxErrs, pf \in Faults,
          qf \in Faults : UpdateBook(req, now, ctx, pf, qf)
    \/ \E popf \in Faults, af \in Faults : Consume(popf, af)

\* DeleteOneBook on a mock of the book service.
HandlersMockNext ==
    \E id \in PathIds, ctx \in CtxErrs, g \in MockGetOne, d \in MockDelete :
        DeleteOneBookMock(id, ctx, g, d)

(***************************************************************************)
(* The two implementations of BookStorage called directly, as their tests  *)
(* do: "redis" is redisBookStorage on the hash, "bolt" is boltBookStorage  *)
(* on the bucket.                                                          *)
(***************************************************************************)
Stores == {"redis", "bolt"}

Cur(s) == IF s = "redis" THEN pstore ELSE bstore

SetStore(s, st) ==
    IF s = "redis" THEN pstore' = st /\ bstore' = bstore
    ELSE bstore' = st /\ pstore' = pstore

StAdd(s, st, id, book, f) ==
    IF s = "redis" THEN RedisAdd(st, id, book, f) ELSE BoltAdd(st, id, book, f)

StGetOne(s, st, id, f) ==
    IF s = "redis" THEN RedisGetOne(st, id, f) ELSE BoltGetOne(st, id, f)

StDelete(s, st, id, f) ==
    IF s = "redis" THEN RedisDelete(st, id, f) ELSE BoltDelete(st, id, f)

StUpdate(s, st, id, book, f) ==
    IF s = "redis" THEN RedisUpdate(st, id, book, f)
    ELSE BoltUpdate(st, id, book, f)

StGetAll(s, st, f) ==
    IF s = "redis" THEN RedisGetAll(st, f) ELSE BoltGetAll(st, f)

NoRepoCall == [store |-> "", op |-> "none", id |-> "", arg |-> ZeroBook,
               book |-> ZeroBook, books |-> NoBooks, err |-> "nil"]

RepoCall(s, op, id, arg, book, books, err) ==
    [store |-> s, op |-> op, id |-> id, arg |-> arg, book |-> book,
     books |-> books, err |-> err]

RepoAdd(s, id, book, f) ==
    /\ LET r == StAdd(s, Cur(s), id, book, f)
       IN  /\ SetStore(s, r.store)
           /\ lastw' = IF r.err = "nil" THEN [lastw EXCEPT ![s][id] = book]
                       ELSE lastw
           /\ rcall' = RepoCall(s, "Add", id, book, ZeroBook, NoBooks, r.err)
    /\ UNCHANGED <<queue, calls, ret>>
    /\ UNCHANGED offRepo

RepoGetOne(s, id, f) ==
    /\ LET r == StGetOne(s, Cur(s), id, f)
       IN  rcall' = RepoCall(s, "GetOne", id, ZeroBook, r.book, NoBooks, r.err)
    /\ UNCHANGED lastw
    /\ UNCHANGED storeVars
    /\ UNCHANGED offRepo

RepoDelete(s, id, f) ==
    /\ LET r == StDelete(s, Cur(s), id, f)
       IN  /\ SetStore(s, r.store)
           /\ lastw' = IF r.err = "nil" THEN [lastw EXCEPT ![s][id] = Nil]
                       ELSE lastw
           /\ rcall' = RepoCall(s, "Delete", id, ZeroBook, ZeroBook, NoBooks,
                                r.err)
    /\ UNCHANGED <<queue, calls, ret>>
    /\ UNCHANGED offRepo

RepoUpdate(s, id, book, f) ==
    /\ LET r == StUpdate(s, Cur(s), id, book, f)
       IN  /\ SetStore(s, r.store)
           /\ lastw' = IF r.err = "nil" THEN [lastw EXCEPT ![s][id] = book]
                       ELSE lastw
           /\ rcall' = RepoCall(s, "Update", id, book, r.book, NoBooks, r.err)
    /\ UNCHANGED <<queue, calls, ret>>
    /\ UNCHANGED offRepo

RepoGetAll(s, f) ==
    /\ LET r == StGetAll(s, Cur(s), f)
       IN  rcall' = RepoCall(s, "GetAll", "", ZeroBook, ZeroBook, r.books, r.err)
    /\ UNCHANGED lastw
    /\ UNCHANGED storeVars
    /\ UNCHANGED offRepo

RepoInit ==
    /\ rcall = NoRepoCall
    /\ lastw = [s \in Stores |-> [id \in Ids |-> Nil]]

RepoNext ==
    \/ \E s \in Stores, id \in Ids, f \in Faults :
           \E book \in EventBooks(CreateQueue) : RepoAdd(s, id, book, f)
    \/ \E s \in Stores, id \in Ids, f \in Faults : RepoGetOne(s, id, f)
    \/ \E s \in Stores, id \in Ids, f \in Faults : RepoDelete(s, id, f)
    \/ \E s \in Stores, id \in Ids, f \in Faults :
           \E book \in EventBooks(CreateQueue) : RepoUpdate(s, id, book, f)
    \/ \E s \in Stores, f \in Faults : RepoGetAll(s, f)

(***************************************************************************)
(* MiddlewaresStacks: the public and the ops stack, and requests walking   *)
(* down the stack of their route to the handler.  Of the interceptors only *)
(* MaintenanceModeMiddleware can stop a request here; the others hand it   *)
(* on.  The handler of /ops/maintenance switches the mode.                 *)
(***************************************************************************)
middlewaresPublic ==
    <<"PanicRecovery", "RequestID", "MaintenanceMode", "RequestsCounter",
      "AddLogger", "CORS", "Timeout", "Stats">>

\* Mutant of middlewaresOps: the ops stack is the public stack.
middlewaresOpsChecked == middlewaresPublic

middlewaresOps ==
    <<"PanicRecovery", "RequestID", "RequestsCounter", "AddLogger", "CORS",
      "Timeout", "Stats">>

\* SetupRoutes: the stack and the handler of a route.
Routes ==
    {[stack |-> "public", op |-> "book"],
     [stack |-> "ops", op |-> "enable"],
     [stack |-> "ops", op |-> "disable"],
     [stack |-> "ops", op |-> "stats"]}

Stack(r) == IF r.stack = "public" THEN middlewaresPublic ELSE middlewaresOps

Slots == 1..MaxInFlight

NoStackRequest == [stack |-> "", op |-> "", at |-> 0, out |-> "none"]

Walking(k) == oreqs[k].out = "pending"

AtInterceptor(k) == Walking(k) /\ oreqs[k].at <= Len(Stack(oreqs[k]))

\* The server accepts a request and enters the stack of its route.
StackArrive(k, route) ==
    /\ ~Walking(k)
    /\ arrived < MaxArrivals
    /\ oreqs' = [oreqs EXCEPT ![k] = [stack |-> route.stack, op |-> route.op,
                                      at |-> 1, out |-> "pending"]]
    /\ arrived' = arrived + 1
    /\ UNCHANGED <<pipeVars, maintVars, storeVars, consVars, ctrVars>>
    /\ UNCHANGED othersStack

\* An interceptor other than the maintenance check calls next.
StackPass(k) ==
    /\ AtInterceptor(k)
    /\ Stack(oreqs[k])[oreqs[k].at] # "MaintenanceMode"
    /\ oreqs' = [oreqs EXCEPT ![k].at = @ + 1]
    /\ UNCHANGED arrived
    /\ UNCHANGED <<pipeVars, maintVars, storeVars, consVars, ctrVars>>
    /\ UNCHANGED othersStack

\* MaintenanceModeMiddleware: the 503 of the show branch when enabled is
\* set, next otherwise.
StackMaintenanceMode(k) ==
    /\ AtInterceptor(k)
    /\ Stack(oreqs[k])[oreqs[k].at] = "MaintenanceMode"
    /\ oreqs' = IF mode.enabled
                THEN [oreqs EXCEPT ![k].out = "503"]
                ELSE [oreqs EXCEPT ![k].at = @ + 1]
    /\ UNCHANGED arrived
    /\ UNCHANGED <<pipeVars, maintVars, storeVars, consVars, ctrVars>>
    /\ UNCHANGED othersStack

\* The handler of the route runs; Maintenance enables or disables the mode.
StackHandle(k, msg, now) ==
    /\ Walking(k)
    /\ oreqs[k].at = Len(Stack(oreqs[k])) + 1
    /\ oreqs' = [oreqs EXCEPT ![k].out = "handled"]
    /\ mode' = CASE oreqs[k].op = "enable" ->
                        [enabled |-> TRUE, reason |-> msg, started |-> now]
                 [] oreqs[k].op = "disable" -> NoMode
                 [] OTHER -> mode
    /\ UNCHANGED <<arrived, opc>>
    /\ UNCHANGED <<pipeVars, storeVars, consVars, ctrVars>>
    /\ UNCHANGED othersStack

StackInit ==
    /\ oreqs = [k \in Slots |-> NoStackRequest]
    /\ arrived = 0

StackNext ==
    \/ \E k \in Slots, route \in Routes : StackArrive(k, route)
    \/ \E k \in Slots : StackPass(k)
    \/ \E k \in Slots : StackMaintenanceMode(k)
    \/ \E k \in Slots, msg \in Reasons, now \in Times : StackHandle(k, msg, now)

\* Every request inside a stack keeps running.
StackFairness ==
    \A k \in Slots :
        /\ WF_vars(StackPass(k))
        /\ WF_vars(StackMaintenanceMode(k))
        /\ WF_vars(\E msg \in Reasons, now \in Times : StackHandle(k, msg, now))

(***************************************************************************)
(* api.stats.status under api.stats.mu: requests that return from next in  *)
(* StatsMiddleware and update the histogram under the write lock, and the  *)
(* GetStatistics handler, which encodes it under the read lock (and whose  *)
(* request then updates the histogram like any other).                     *)
(***************************************************************************)
Finishing == 1..MaxFinishing

\* The pipeline state other than the histogram.
pipeButStats ==
    <<reqNo, crashed, mpc, hpc, ctxErr, hdrAborted, rw, cw, done, hop, hops,
      fired, firedEarly, panicked, firstReached, cwForwards, lateWrite,
      recorded, doneFirst, wobs, mobs>>

NoHistogram == [c \in StatusCodes |-> 0]

NoFinishing ==
    [pc |-> "idle", kind |-> "", code |-> 0, num |-> 0,
     seen |-> NoHistogram, sent |-> NoHistogram]

offHist ==
    <<pipeButStats, maintVars, storeVars, consVars, ctrVars, othersHist>>

\* A request reaches its handler: a book handler, which answers with some
\* status, or GetStatistics.
HistArrive(c, kind, code) ==
    /\ sreq[c].pc = "idle"
    /\ kind = "stats" => code = StatusOK
    /\ sreq' = [sreq EXCEPT ![c] = [NoFinishing EXCEPT
                    !.pc = IF kind = "stats" THEN "rlock" ELSE "lock",
                    !.kind = kind, !.code = code]]
    /\ UNCHANGED <<stats, smu, left>>
    /\ UNCHANGED offHist

\* api.stats.mu.RLock()
HistRLock(c) ==
    /\ sreq[c].pc = "rlock"
    /\ smu.w = 0
    /\ smu' = [smu EXCEPT !.r = @ \cup {c}]
    /\ sreq' = [sreq EXCEPT ![c].pc = "encode"]
    /\ UNCHANGED <<stats, left>>
    /\ UNCHANGED offHist

\* Encode starts to walk the map ...
HistEncodeBegin(c) ==
    /\ sreq[c].pc = "encode"
    /\ sreq' = [sreq EXCEPT ![c].pc = "encoding", ![c].seen = stats]
    /\ UNCHANGED <<stats, smu, left>>
    /\ UNCHANGED offHist

\* ... and has written it all.
HistEncodeEnd(c) ==
    /\ sreq[c].pc = "encoding"
    /\ sreq' = [sreq EXCEPT ![c].pc = "runlock", ![c].sent = stats]
    /\ UNCHANGED <<stats, smu, left>>
    /\ UNCHANGED offHist

\* api.stats.mu.RUnlock(); the handler returns to StatsMiddleware
HistRUnlock(c) ==
    /\ sreq[c].pc = "runlock"
    /\ smu' = [smu EXCEPT !.r = @ \ {c}]
    /\ sreq' = [sreq EXCEPT ![c].pc = "lock"]
    /\ UNCHANGED <<stats, left>>
    /\ UNCHANGED offHist

\* Mutant of HistLock: the lock is taken without waiting.
HistLockNoWait(c) ==
    /\ sreq[c].pc = "lock"
    /\ smu' = [smu EXCEPT !.w = c]
    /\ sreq' = [sreq EXCEPT ![c].pc = "load"]
    /\ UNCHANGED <<stats, left>>
    /\ UNCHANGED offHist

\* api.stats.mu.Lock()
HistLock(c) ==
    /\ sreq[c].pc = "lock"
    /\ smu.w = 0 /\ smu.r = {}
    /\ smu' = [smu EXCEPT !.w = c]
    /\ sreq' = [sreq EXCEPT ![c].pc = "load"]
    /\ UNCHANGED <<stats, left>>
    /\ UNCHANGED offHist

\* num, found := api.stats.status[nw.code]
HistLoad(c) ==
    /\ sreq[c].pc = "load"
    /\ sreq' = [sreq EXCEPT ![c].pc = "store", ![c].num = stats[sreq[c].code]]
    /\ UNCHANGED <<stats, smu, left>>
    /\ UNCHANGED offHist

\* api.stats.status[nw.code] = 1, or num + 1 when the code was found
HistStore(c) ==
    /\ sreq[c].pc = "store"
    /\ stats' = [stats EXCEPT ![sreq[c].code] =
                     IF sreq[c].num = 0 THEN 1 ELSE sreq[c].num + 1]
    /\ sreq' = [sreq EXCEPT ![c].pc = "unlock"]
    /\ UNCHANGED <<smu, left>>
    /\ UNCHANGED offHist

\* api.stats.mu.Unlock(): the request leaves StatsMiddleware
HistUnlock(c) ==
    /\ sreq[c].pc = "unlock"
    /\ smu' = [smu EXCEPT !.w = IF @ = c THEN 0 ELSE @]
    /\ left' = [left EXCEPT ![sreq[c].code] = @ + 1]
    /\ sreq' = [sreq EXCEPT ![c].pc = "done"]
    /\ UNCHANGED stats
    /\ UNCHANGED offHist

HistInit ==
    /\ sreq = [c \in Finishing |-> NoFinishing]
    /\ smu = [w |-> 0, r |-> {}]
    /\ left = NoHistogram

HistNext ==
    \/ \E c \in Finishing, code \in HandlerStatuses : HistArrive(c, "book", code)
    \/ \E c \in Finishing : HistArrive(c, "stats", StatusOK)
    \/ \E c \in Finishing : HistRLock(c)
    \/ \E c \in Finishing : HistEncodeBegin(c)
    \/ \E c \in Finishing : HistEncodeEnd(c)
    \/ \E c \in Finishing : HistRUnlock(c)
    \/ \E c \in Finishing : HistLock(c)
    \/ \E c \in Finishing : HistLoad(c)
    \/ \E c \in Finishing : HistStore(c)
    \/ \E c \in Finishing : HistUnlock(c)

(***************************************************************************)
(* BookService.DeleteAll: the caller in its select loop, the goroutine     *)
(* that runs pstorage.DeleteAll(opsCtx), the timeout of opsCtx and the     *)
(* ticker.  The storage call is behind the PrimaryStorage interface: it    *)
(* returns when it returns, with or without regard for its context.        *)
(***************************************************************************)
NoDeleteAll == [pc |-> "idle", rctx |-> "nil", opsCtx |-> "nil", logged |-> ""]

offClear == <<pipeVars, maintVars, storeVars, consVars, ctrVars, othersClear>>

\* opsCtx, cancel := context.WithTimeout(context.Background(), ...);
\* errChan := make(chan error, 1); go func() { ... }()
DeleteAllStart(rctx) ==
    /\ dall.pc \in {"idle", "returned"}
    /\ dall' = [pc |-> "select", rctx |-> rctx, opsCtx |-> "nil", logged |-> ""]
    /\ clearing' = "running"
    /\ errChan' = <<>>
    /\ UNCHANGED offClear

\* The context of the request that asked for the clearing is done.
DeleteAllCallerDone ==
    /\ dall.pc = "select" /\ dall.rctx = "nil"
    /\ dall' = [dall EXCEPT !.rctx = "Canceled"]
    /\ UNCHANGED <<clearing, errChan>>
    /\ UNCHANGED offClear

\* The timeout of opsCtx expires.
DeleteAllTimeout ==
    /\ dall.pc = "select" /\ dall.opsCtx = "nil"
    /\ dall' = [dall EXCEPT !.opsCtx = "DeadlineExceeded"]
    /\ UNCHANGED <<clearing, errChan>>
    /\ UNCHANGED offClear

\* What pstorage.DeleteAll can do: clear the store, fail, or give up on a
\* context that is done.
Clearings == {"ok", "fail", "ctx"}

\* errChan <- bs.pstorage.DeleteAll(opsCtx)
DeleteAllClearing(f) ==
    /\ clearing = "running"
    /\ f = "ctx" => dall.opsCtx # "nil"
    /\ pstore' = IF f = "ok" THEN EmptyStore ELSE pstore
    /\ errChan' = <<CASE f = "ok" -> "nil"
                      [] f = "fail" -> "ErrIO"
                      [] f = "ctx" -> dall.opsCtx>>
    /\ clearing' = "returned"
    /\ UNCHANGED dall
    /\ UNCHANGED <<bstore, queue, calls, ret>>
    /\ UNCHANGED <<pipeVars, maintVars, consVars, ctrVars, othersClear>>

\* case <-opsCtx.Done(): the error is logged and the loop goes on.
DeleteAllLogTimeout ==
    /\ dall.pc = "select" /\ dall.opsCtx # "nil"
    /\ dall' = [dall EXCEPT !.logged = "timeout"]
    /\ UNCHANGED <<clearing, errChan>>
    /\ UNCHANGED offClear

\* case <-ticker.C
DeleteAllTick ==
    /\ dall.pc = "select"
    /\ dall' = [dall EXCEPT !.logged = "still running"]
    /\ UNCHANGED <<clearing, errChan>>
    /\ UNCHANGED offClear

\* case err := <-errChan: logged, return; the deferred cancel() runs.
DeleteAllReceive ==
    /\ dall.pc = "select" /\ errChan # <<>>
    /\ dall' = [dall EXCEPT
                   !.pc = "returned",
                   !.logged = IF Head(errChan) # "nil" THEN "error"
                              ELSE "completed",
                   !.opsCtx = IF @ = "nil" THEN "Canceled" ELSE @]
    /\ errChan' = Tail(errChan)
    /\ UNCHANGED clearing
    /\ UNCHANGED offClear

ClearInit ==
    /\ dall = NoDeleteAll
    /\ clearing = "idle"
    /\ errChan = <<>>

ClearNext ==
    \/ \E id \in Ids, t \in Titles, now \in Times : Add(id, t, now, "ok", "ok")
    \/ \E rctx \in {"nil", "Canceled"} : DeleteAllStart(rctx)
    \/ DeleteAllCallerDone
    \/ DeleteAllTimeout
    \/ \E f \in Clearings : DeleteAllClearing(f)
    \/ DeleteAllLogTimeout
    \/ DeleteAllTick
    \/ DeleteAllReceive

\* The goroutine in the select loop keeps running, and a select with a
\* value waiting on errChan picks that case in the end.
ClearFairness ==
    /\ WF_vars(DeleteAllLogTimeout)
    /\ WF_vars(DeleteAllReceive)

(***************************************************************************)
(* api.stats.called and api.stats.status along the chain: a request is     *)
(* counted by RequestsCounterMiddleware, TimeoutMiddleware starts its      *)
(* handler in a goroutine and waits for done or for the context, and       *)
(* StatsMiddleware, on that goroutine, adds the status to the histogram    *)
(* when the handler has returned.  GetStatistics reports both.             *)
(***************************************************************************)
NoReport == [called |-> 0, status |-> NoHistogram, alone |-> FALSE,
             quiet |-> FALSE]

NoTotals == [pc |-> "idle", h |-> "none", kind |-> "", code |-> 0,
             report |-> NoReport]

\* The request has not been answered yet.
InFlight(k) == treq[k].pc \in {"counter", "timeout", "select"}

\* The goroutine TimeoutMiddleware started for the request is running.
HandlerRuns(k) == treq[k].h \in {"handler", "stats"}

offTotals == <<pipeButStats, maintVars, storeVars, consVars, rpc, rnum,
               othersTotal>>

\* The server accepts a request; its slot is free once the request is
\* answered and its goroutine is gone.
TotalsArrive(k, kind) ==
    /\ ~InFlight(k) /\ ~HandlerRuns(k)
    /\ called < MaxArrivals
    /\ treq' = [treq EXCEPT ![k] = [NoTotals EXCEPT !.pc = "counter",
                                                    !.kind = kind]]
    /\ UNCHANGED <<called, stats>>
    /\ UNCHANGED offTotals

\* atomic.AddUint64(&api.stats.called, 1)
TotalsCount(k) ==
    /\ treq[k].pc = "counter"
    /\ called' = called + 1
    /\ treq' = [treq EXCEPT ![k].pc = "timeout"]
    /\ UNCHANGED stats
    /\ UNCHANGED offTotals

\* go func() { next(w, r, ps); close(done) }()
TotalsGo(k) ==
    /\ treq[k].pc = "timeout"
    /\ treq' = [treq EXCEPT ![k].pc = "select", ![k].h = "handler"]
    /\ UNCHANGED <<called, stats>>
    /\ UNCHANGED offTotals

\* A book handler answers.
TotalsHandle(k, code) ==
    /\ treq[k].h = "handler" /\ treq[k].kind = "book"
    /\ treq' = [treq EXCEPT ![k].h = "stats", ![k].code = code]
    /\ UNCHANGED <<called, stats>>
    /\ UNCHANGED offTotals

\* GetStatistics: called - 1 and the histogram, read under the read lock.
TotalsGetStatistics(k) ==
    /\ treq[k].h = "handler" /\ treq[k].kind = "stats"
    /\ treq' = [treq EXCEPT
                   ![k].h = "stats",
                   ![k].code = StatusOK,
                   ![k].report =
                       [called |-> called - 1,
                        status |-> stats,
                        alone |-> \A j \in Slots \ {k} : ~InFlight(j),
                        quiet |-> \A j \in Slots \ {k} :
                                      ~InFlight(j) /\ ~HandlerRuns(j)]]
    /\ UNCHANGED <<called, stats>>
    /\ UNCHANGED offTotals

\* StatsMiddleware after next: api.stats.status[nw.code]++; then done is
\* closed.
TotalsStatsMiddleware(k) ==
    /\ treq[k].h = "stats"
    /\ stats' = [stats EXCEPT ![treq[k].code] = @ + 1]
    /\ treq' = [treq EXCEPT ![k].h = "exited"]
    /\ UNCHANGED called
    /\ UNCHANGED offTotals

\* case <-done
TotalsSelectDone(k) ==
    /\ treq[k].pc = "select" /\ treq[k].h = "exited"
    /\ treq' = [treq EXCEPT ![k].pc = "answered"]
    /\ UNCHANGED <<called, stats>>
    /\ UNCHANGED offTotals

\* case <-ctx.Done(): the guard answers 504 or 499 and the chain returns;
\* the goroutine of the handler goes on.
TotalsSelectCtxDone(k) ==
    /\ treq[k].pc = "select"
    /\ treq' = [treq EXCEPT ![k].pc = "answered"]
    /\ UNCHANGED <<called, stats>>
    /\ UNCHANGED offTotals

TotalsInit == treq = [k \in Slots |-> NoTotals]

TotalsNext ==
    \/ \E k \in Slots, kind \in {"book", "stats"} : TotalsArrive(k, kind)
    \/ \E k \in Slots : TotalsCount(k)
    \/ \E k \in Slots : TotalsGo(k)
    \/ \E k \in Slots, code \in HandlerStatuses : TotalsHandle(k, code)
    \/ \E k \in Slots : TotalsGetStatistics(k)
    \/ \E k \in Slots : TotalsStatsMiddleware(k)
    \/ \E k \in Slots : TotalsSelectDone(k)
    \/ \E k \in Slots : TotalsSelectCtxDone(k)

(***************************************************************************)
(* App.Run: the errgroup with ConsumeQueues (which starts the consumer),   *)
(* Serve and Stop.  cctx is gCtx, the context of the group: done on a      *)
(* signal (it derives from nCtx), or when a function of the group returns  *)
(* an error.  The consumer is the loop of Consume, without the logs of     *)
(* pushed and applied events.                                              *)
(***************************************************************************)
NewApp ==
    [run |-> "wait",        \* Run: in g.Wait(), in Clean, returned
     nctx |-> "nil",        \* nCtx.Err()
     cq |-> "start",        \* the function ConsumeQueues returns
     serve |-> "serving",   \* the function Serve returns
     stop |-> "wait",       \* the function Stop returns
     server |-> "up",       \* app.server
     client |-> "open",     \* app.redisClient
     gerr |-> "nil",        \* the first error a function of the group returned
     reason |-> "",         \* what Stop logged
     ret |-> "none"]        \* the err that Run joins with the cleanup errors

offRun == <<pipeVars, maintVars, storeVars, ctrVars, othersRun>>

\* SIGINT or SIGTERM: nCtx is done, and gCtx with it.
RunSignal ==
    /\ app.run = "wait" /\ app.nctx = "nil"
    /\ app' = [app EXCEPT !.nctx = "Canceled"]
    /\ cctx' = "Canceled"
    /\ UNCHANGED <<cpc, turn, turns, consumeRet, pushed, applied>>
    /\ UNCHANGED offRun

\* The events pushed while Run is observed: those of one book.
RunEvents(qid) == {b \in EventBooks(qid) : b.ID = "b:1" /\ b.Title # "t2"}

\* A service call pushes an event while the server answers requests.
RunEnqueue(qid, book) ==
    /\ app.server = "up" /\ app.serve = "serving"
    /\ DrainEnqueue(qid, book)

\* for _, consume := range app.queueConsumers { g.Go(f) }; return nil
RunConsumeQueues ==
    /\ app.cq = "start"
    /\ app' = [app EXCEPT !.cq = "returned"]
    /\ UNCHANGED consVars
    /\ UNCHANGED offRun

\* ListenAndServe fails: Serve returns the error, the group keeps it as its
\* first error and cancels gCtx.
ServeFails ==
    /\ app.serve = "serving" /\ app.server = "up"
    /\ app' = [app EXCEPT !.serve = "returned", !.gerr = "ErrListen"]
    /\ cctx' = IF cctx = "nil" THEN "Canceled" ELSE cctx
    /\ UNCHANGED <<cpc, turn, turns, consumeRet, pushed, applied>>
    /\ UNCHANGED offRun

\* ListenAndServe returns http.ErrServerClosed after Shutdown or Close:
\* Serve returns nil.
ServeClosed ==
    /\ app.serve = "serving" /\ app.server = "down"
    /\ app' = [app EXCEPT !.serve = "returned"]
    /\ UNCHANGED consVars
    /\ UNCHANGED offRun

\* <-gCtx.Done(), and the reason that is logged
StopWakes ==
    /\ app.stop = "wait" /\ cctx # "nil"
    /\ app' = [app EXCEPT !.stop = "shutdown",
                          !.reason = IF app.nctx # "nil"
                                     THEN "requested to stop"
                                     ELSE "errored at running"]
    /\ UNCHANGED consVars
    /\ UNCHANGED offRun

\* What app.server.Shutdown(sCtx) returns.
ShutdownErrs == {"nil", "ErrServerClosed", "DeadlineExceeded", "ErrIO"}

\* err := app.server.Shutdown(sCtx)
StopShutdown(err) ==
    /\ app.stop = "shutdown"
    /\ app' = [app EXCEPT !.server = "down",
                          !.stop = IF err \in {"nil", "ErrServerClosed"}
                                   THEN "close" ELSE "force"]
    /\ UNCHANGED consVars
    /\ UNCHANGED offRun

\* app.server.Close()
StopForce ==
    /\ app.stop = "force"
    /\ app' = [app EXCEPT !.stop = "close"]
    /\ UNCHANGED consVars
    /\ UNCHANGED offRun

\* Mutant of StopCloseClient: Stop returns and leaves the client open.
StopLeaveClient ==
    /\ app.stop = "close"
    /\ app' = [app EXCEPT !.stop = "returned"]
    /\ UNCHANGED consVars
    /\ UNCHANGED offRun

\* app.redisClient.Close(), its error logged; return nil
StopCloseClient ==
    /\ app.stop = "close"
    /\ app' = [app EXCEPT !.client = "closed", !.stop = "returned"]
    /\ UNCHANGED consVars
    /\ UNCHANGED offRun

\* The consumer is running and its client is open: Pop returns an event, or
\* fails.
RunPop(f) ==
    /\ app.cq = "returned" /\ app.client = "open"
    /\ cpc = "pop"
    /\ f = "ok" => ~QueueEmpty(queue)
    /\ LET r == Pop(queue, f)
       IN  /\ queue' = r.queue
           /\ turn' = [qid |-> r.qid, book |-> r.book, err |-> r.err,
                       aerr |-> "nil", pctx |-> cctx, actx |-> "nil"]
    /\ cpc' = "popped"
    /\ UNCHANGED <<pstore, bstore, calls, ret>>
    /\ UNCHANGED <<cctx, turns, consumeRet, pushed, applied>>
    /\ UNCHANGED <<pipeVars, maintVars, ctrVars, extVars>>

\* Pop on the closed client, called or blocked in BLPOP: it fails.
RunPopClosed ==
    /\ app.cq = "returned" /\ app.client = "closed"
    /\ cpc = "pop"
    /\ turn' = [qid |-> "", book |-> ZeroBook, err |-> "ErrClosed",
                aerr |-> "nil", pctx |-> cctx, actx |-> "nil"]
    /\ cpc' = "popped"
    /\ UNCHANGED storeVars
    /\ UNCHANGED <<cctx, turns, consumeRet, pushed, applied>>
    /\ UNCHANGED <<pipeVars, maintVars, ctrVars, extVars>>

\* err := g.Wait(): every function of the group has returned; err is the
\* first error one of them returned.
RunWait ==
    /\ app.run = "wait"
    /\ app.cq = "returned" /\ app.serve = "returned" /\ app.stop = "returned"
    /\ cpc = "exited"
    /\ app' = [app EXCEPT !.run = "clean",
                          !.gerr = IF consumeRet \notin {"none", "nil"}
                                      /\ app.gerr = "nil"
                                   THEN consumeRet ELSE @]
    /\ cctx' = IF cctx = "nil" THEN "Canceled" ELSE cctx
    /\ UNCHANGED <<cpc, turn, turns, consumeRet, pushed, applied>>
    /\ UNCHANGED offRun

\* errs := app.Clean(); return errors.Join(err, errs)
RunReturn ==
    /\ app.run = "clean"
    /\ app' = [app EXCEPT !.run = "returned", !.ret = app.gerr]
    /\ UNCHANGED consVars
    /\ UNCHANGED offRun

RunInit == app = NewApp

RunNext ==
    \/ RunSignal
    \/ \E qid \in {CreateQueue, UpdateQueue, DeleteQueue} :
           \E book \in RunEvents(qid) : RunEnqueue(qid, book)
    \/ RunConsumeQueues
    \/ ServeFails
    \/ ServeClosed
    \/ StopWakes
    \/ \E err \in ShutdownErrs : StopShutdown(err)
    \/ StopForce
    \/ StopCloseClient
    \/ \E f \in Faults : RunPop(f)
    \/ RunPopClosed
    \/ ConsumeExit
    \/ ConsumeRetry
    \/ DrainDispatch
    \/ RunWait
    \/ RunReturn

\* Every goroutine keeps running; the calls of Stop return (Shutdown has
\* its timeout), a Pop with an event waiting returns it, and a Pop on the
\* closed client fails.  Nothing says that a Pop fails on an open client.
RunFairness ==
    /\ WF_vars(RunConsumeQueues)
    /\ WF_vars(ServeClosed)
    /\ WF_vars(StopWakes)
    /\ WF_vars(\E err \in ShutdownErrs : StopShutdown(err))
    /\ WF_vars(StopForce)
    /\ WF_vars(StopCloseClient)
    /\ WF_vars(RunPop("ok"))
    /\ WF_vars(RunPopClosed)
    /\ WF_vars(ConsumeExit)
    /\ WF_vars(ConsumeRetry)
    /\ WF_vars(DrainDispatch)
    /\ WF_vars(RunWait)
    /\ WF_vars(RunReturn)

StoreInit ==
    /\ pstore = EmptyStore
    /\ bstore = EmptyStore
    /\ queue = EmptyQueue
    /\ calls = 0
    /\ ret = NoCall

StoreNext ==
    \/ \E id \in Ids, t \in Titles, now \in Times, pf \in Faults, qf \in Faults :
           Add(id, t, now, pf, qf)
    \/ \E id \in Ids, pf \in Faults, bf \in Faults, cf \in Faults :
           GetOne(id, pf, bf, cf)
    \/ \E id \in Ids, pf \in Faults, qf \in Faults : Delete(id, pf, qf)
    \/ \E id \in Ids, t \in Titles, now \in Times, pf \in Faults, qf \in Faults :
           Update(id, t, now, pf, qf)
    \/ \E bf \in Faults, pf \in Faults : GetAll(bf, pf)
    \/ \E popf \in Faults, af \in Faults : Consume(popf, af)

\* The book service and the consumer when every call of a store or of the
\* queue succeeds.
ReplicaNext ==
    \/ \E id \in Ids, t \in Titles, now \in Times : Add(id, t, now, "ok", "ok")
    \/ \E id \in Ids : GetOne(id, "ok", "ok", "ok")
    \/ \E id \in Ids : Delete(id, "ok", "ok")
    \/ \E id \in Ids, t \in Titles, now \in Times :
           Update(id, t, now, "ok", "ok")
    \/ Consume("ok", "ok")

Init ==
    /\ PipeInit /\ MaintInit /\ StoreInit /\ ConsumerInit /\ CounterInit
    /\ ChainInit /\ RepoInit /\ HandlerInit /\ StackInit
    /\ HistInit /\ ClearInit /\ TotalsInit /\ RunInit

SpecGuard == Init /\ [][PipeNext]_vars

SpecMaint == Init /\ [][MaintNext]_vars

SpecStore == Init /\ [][StoreNext]_vars

SpecReplica == Init /\ [][ReplicaNext]_vars

SpecConsumer == Init /\ [][ConsumerNext]_vars

SpecConsumerLanes == Init /\ [][ConsumerLanesNext]_vars

SpecCounter == Init /\ [][CounterNext]_vars

SpecChain == Init /\ [][ChainNext]_vars

SpecRepo == Init /\ [][RepoNext]_vars

SpecHandlers == Init /\ [][HandlersNext]_vars

SpecHandlersMock == Init /\ [][HandlersMockNext]_vars

SpecHist == Init /\ [][HistNext]_vars

SpecClear == Init /\ [][ClearNext]_vars /\ ClearFairness

SpecTotals == Init /\ [][TotalsNext]_vars

SpecRun == Init /\ [][RunNext]_vars /\ RunFairness

SpecDrain == Init /\ [][DrainNext]_vars /\ DrainFairness

SpecStacks == Init /\ [][StackNext]_vars /\ StackFairness

(***************************************************************************)
(* Request pipeline: properties.                                           *)
(***************************************************************************)
GuardStatus == IF fired = "C" THEN StatusClientClosed ELSE StatusGatewayTimeout

\* C1: when the guard fires (deadline or client cancellation) before the
\* wrapped handler has finished, the response the client observes carries the
\* guard's status (504 / 499) whatever the handler wrote before, and no call
\* of the handler reaches the native writer once the guard has marked the
\* response as aborted.
C1_GuardResponseWins ==
    /\ (rw.finished /\ fired # "none" /\ firedEarly) => rw.status = GuardStatus
    /\ ~lateWrite

\* C2: over any sequence of WriteHeader / Write calls on the sink one status
\* code is sent, the sink forwards a status at most once, and the status of
\* the response is the first code that reached the sink while it was not
\* finalized.
C2_SingleCommit ==
    /\ cwForwards <= 1
    /\ (rw.finished /\ firstReached # 0) => rw.status = firstReached

\* C3: the status code StatsMiddleware adds to the histogram is the status
\* code that was sent to the client.
C3_RecordedIsSent ==
    (rw.finished /\ recorded # 0) => recorded = rw.status

\* C4: a panic raised while a request is processed, in an interceptor or in
\* the entity handler, is recovered and answered with status 500, and the
\* process keeps running.
C4_PanicRecovered ==
    /\ ~crashed
    /\ (panicked /\ rw.finished /\ ctxErr # "Canceled")
           => rw.status = StatusInternalServerError

\* C14: a public request that finds maintenance mode enabled is answered
\* with status 503 and the fixed body alone, the entity handler is never
\* invoked for it, and when no ops request wrote the mode between the load
\* of enabled and the answer, the body carries the reason and the activation
\* time of the mode found; a request that finds it disabled is forwarded.
C14_MaintenanceMode ==
    mobs.checked =>
        IF mobs.seen.enabled
        THEN /\ hpc = "none"
             /\ mpc \in {"m_show", "ret", "idle"}
             /\ rw.finished =>
                    /\ rw.status = StatusServiceUnavailable
                    /\ Len(rw.body) = 1
                    /\ rw.body[1].message = "service currently unvailable."
                    /\ mobs.stable =>
                           rw.body = <<MaintenanceBody(mobs.seen.reason,
                                                       mobs.seen.started)>>
        ELSE /\ mpc \notin {"chain", "m_show"}
             /\ mpc # "inner" => hpc # "none"
             /\ rw.finished => rw.status # StatusServiceUnavailable

C14_Witness ==
    /\ rw.finished
    /\ mobs.checked /\ mobs.seen.enabled /\ mobs.stable
    /\ hpc = "none"
    /\ rw.status = StatusServiceUnavailable
    /\ rw.body = <<MaintenanceBody("r2", 1)>>
    /\ reqNo = 2

\* C15: when the handler's goroutine closed done while the context was
\* still alive, the guard took no part in the response: no abort marker, no
\* timeout body, and the status is the one the sink holds for the handler.
C15_HandlerFirst ==
    (rw.finished /\ doneFirst) =>
        /\ fired = "none"
        /\ hdrAborted = ""
        /\ \A i \in 1..Len(rw.body) : rw.body[i] # TimeoutBody
        /\ rw.status = cw.code

C17_GuardOutcome ==
    (rw.finished /\ hpc # "none") =>
        /\ fired = "T" <=> ctxErr = "DeadlineExceeded"
        /\ fired = "C" <=> ctxErr = "Canceled"
        /\ fired = "T" =>
               rw.status = StatusGatewayTimeout /\ rw.body = <<TimeoutBody>>
        /\ fired = "C" =>
               rw.status = StatusClientClosed /\ rw.body = <<>>

\* A sink call that begins at its test of the abort marker.
SinkCallBegins ==
    \/ hpc = "w_chk"
    \/ hpc = "wh_chk" /\ hop.kont # "write"

\* C18: once the guard has fired none of its steps waits for the handler;
\* the handler's goroutine is never blocked, close(done) included; and a
\* WriteHeader or Write it begins on the finalized sink forwards nothing to
\* the native writer.
C18_AbandonedHandler ==
    /\ [](~crashed =>
            /\ mpc \in {"c_set", "t_set"} => ENABLED GuardSetAborted
            /\ mpc \in {"c_wh", "t_wh"} => ENABLED GuardWriteHeader
            /\ mpc = "t_body" => ENABLED GuardWriteBody
            /\ mpc = "ret" => ENABLED ServeReturn
            /\ hpc = "h_run" => ENABLED HandlerReturn
            /\ hpc = "wr_ctx" => ENABLED WriteResponse
            /\ hpc = "wh_chk" => ENABLED CWWriteHeader
            /\ hpc = "wh_fwd" => ENABLED CWForwardHeader
            /\ hpc = "w_chk" => ENABLED CWWrite
            /\ hpc = "w_fwd" => ENABLED CWForwardWrite
            /\ hpc = "stats" => ENABLED StatsMiddleware
            /\ hpc = "close" => ENABLED CloseDone)
    /\ [][(Aborted /\ SinkCallBegins /\ hpc' # hpc) =>
              /\ rw' = rw
              /\ hpc' \notin {"wh_fwd", "w_fwd"}]_vars

\* The guard has answered and returned; the handler met the finalized
\* sink, returned, was counted and closed done.
C18_Witness ==
    /\ fired # "none" /\ firedEarly
    /\ rw.finished
    /\ wobs.phase = "done" /\ wobs.aborted
    /\ recorded # 0
    /\ hpc = "exited" /\ done

StatsTotal ==
    stats[StatusOK] + stats[StatusNotFound] + stats[StatusClientClosed]
        + stats[StatusInternalServerError] + stats[StatusGatewayTimeout]

\* C19: once every request accepted so far has been answered and its
\* goroutines are gone, the histogram holds one entry per request.
C19_EveryResponseRecorded ==
    (mpc = "idle" /\ HandlerGone /\ ~crashed) => StatsTotal = reqNo

(***************************************************************************)
(* Book service: properties.                                               *)
(***************************************************************************)
Mutators == {"Add", "Update", "Delete"}

LaneOf(op) ==
    CASE op = "Add"    -> CreateQueue
      [] op = "Update" -> UpdateQueue
      [] op = "Delete" -> DeleteQueue

\* Positions of the pushes in the trace of a call.
Pushes(c) == {i \in 1..Len(c.log) : c.log[i].t = "q.Push"}

\* The books a store holds.
Held(st) == {Unmarshal(st[i]) : i \in {j \in DOMAIN st : st[j] # Nil}}

\* C5: GetOne reports not-found only when the primary and the backup store
\* both reported not-found, and an error of the primary store other than
\* not-found is returned as it is.
C5_GetOneErrors ==
    ret.op = "GetOne" =>
        /\ ret.err = "ErrBookNotFound" =>
               /\ ret.log[1].err = "ErrBookNotFound"
               /\ Len(ret.log) = 2
               /\ ret.log[2].err = "ErrBookNotFound"
        /\ ret.log[1].err = "ErrIO" => ret.err = "ErrIO"

\* C6: Delete of an id the primary store does not hold returns the not-found
\* error and pushes nothing on the delete lane.
C6_DeleteMissing ==
    (ret.op = "Delete" /\ ret.pre.p[ret.id] = Nil /\ ret.log[1].err # "ErrIO") =>
        /\ ret.err = "ErrBookNotFound"
        /\ Pushes(ret) = {}
        /\ ret.post.q = ret.pre.q

\* C7: Add, Update and Delete attempt one push on their own lane, after the
\* write, exactly when the write to the primary store succeeded; a failed
\* write is returned and nothing is pushed.
C7_PushOncePerWrite ==
    ret.op \in Mutators =>
        LET w == ret.log[1]
            lane == LaneOf(ret.op)
        IN  /\ w.t # "q.Push"
            /\ Cardinality(Pushes(ret)) = IF w.err = "nil" THEN 1 ELSE 0
            /\ \A i \in Pushes(ret) : i > 1 /\ ret.log[i].arg = lane
            /\ \A l \in DOMAIN ret.post.q :
                   Len(ret.post.q[l]) - Len(ret.pre.q[l]) =
                       IF l = lane /\ Pushes(ret) # {} /\ ret.log[2].err = "nil"
                       THEN 1 ELSE 0
            /\ w.err # "nil" => ret.err = w.err /\ ret.post.p = ret.pre.p

C7_Witness ==
    /\ ret.op = "Delete"
    /\ ret.log[1].err = "nil"
    /\ Pushes(ret) = {2}
    /\ Len(ret.post.q[DeleteQueue]) = Len(ret.pre.q[DeleteQueue]) + 1

\* C8: when the push fails, Add, Update and Delete return no error, the
\* primary store keeps the mutation, and the push is not tried again.
C8_PushFailureIgnored ==
    (ret.op \in Mutators /\ \E i \in Pushes(ret) : ret.log[i].err # "nil") =>
        /\ ret.err = "nil"
        /\ Cardinality(Pushes(ret)) = 1
        /\ ret.post.q = ret.pre.q
        /\ pstore = ret.post.p
        /\ pstore[ret.id] =
               CASE ret.op = "Add"    -> Marshal(ret.arg)
                 [] ret.op = "Update" -> Marshal(ret.book)
                 [] ret.op = "Delete" -> Nil

C8_Witness ==
    /\ ret.op = "Update"
    /\ Len(ret.log) = 2
    /\ ret.log[2].err = "ErrIO"
    /\ ret.pre.p[ret.id] # pstore[ret.id]

\* C9: for an id only the backup store holds (both reads answered), GetOne
\* returns the backup's value and writes it to the primary store; if that
\* write succeeded, the next GetOne of the id is answered by the primary
\* store (its read answered) without a read of the backup store.
C9_CacheAside ==
    ret.op = "GetOne" =>
        /\ ( /\ ret.pre.p[ret.id] = Nil
             /\ ret.pre.b[ret.id] # Nil
             /\ ret.log[1].err # "ErrIO"
             /\ Len(ret.log) >= 2 => ret.log[2].err # "ErrIO" ) =>
               /\ ret.err = "nil"
               /\ ret.book = Unmarshal(ret.pre.b[ret.id])
               /\ Len(ret.log) = 3
               /\ ret.log[3].t = "p.Add"
               /\ ret.log[3].err = "nil" => ret.post.p[ret.id] = ret.pre.b[ret.id]
               /\ ret.post.b = ret.pre.b
        /\ ( /\ ret.prev.filled
             /\ ret.prev.id = ret.id
             /\ ret.log[1].err # "ErrIO" ) =>
               /\ ret.err = "nil"
               /\ ret.book = ret.prev.book
               /\ Len(ret.log) = 1
               /\ ret.log[1].t = "p.GetOne"

C9_Witness ==
    /\ ret.op = "GetOne"
    /\ ret.prev.filled
    /\ ret.prev.id = ret.id
    /\ Len(ret.log) = 1
    /\ ret.book = ret.prev.book
    /\ ret.book # ZeroBook

\* C10: GetAll returns the listing of the backup store when it is obtained
\* without error and is not empty, and otherwise exactly the result, listing
\* or error, of the primary store's GetAll.
C10_GetAllFallback ==
    ret.op = "GetAll" =>
        IF ret.log[1].err = "nil" /\ Held(ret.pre.b) # {}
        THEN /\ ret.books = Listing(ret.pre.b)
             /\ ret.err = "nil"
             /\ Len(ret.log) = 1
        ELSE /\ Len(ret.log) = 2
             /\ ret.log[2].t = "p.GetAll"
             /\ ret.err = ret.log[2].err
             /\ ret.books = IF ret.err = "nil" THEN Listing(ret.pre.p)
                            ELSE NoBooks

C10_Witness ==
    /\ ret.op = "GetAll"
    /\ ret.log[1].err = "nil"
    /\ Held(ret.pre.b) = {}
    /\ ret.books # NoBooks

(***************************************************************************)
(* Consumer: properties.                                                   *)
(***************************************************************************)
\* The step in which the consumer leaves the test that follows a pop.
AfterPop == cpc = "popped" /\ cpc' # "popped"

\* C11: when the backup store rejects the Add / Update / Delete of a popped
\* event, the consumer makes that one call and no other, leaves the backup
\* store and the lanes as they are (the event is neither applied again nor
\* pushed back), does not return, and is back at the pop.
C11_DropOnApplyError ==
    [][(AfterPop /\ turn.err = "nil" /\ turn'.aerr # "nil") =>
           /\ applied' = Append(applied, [qid |-> turn.qid, book |-> turn.book,
                                          err |-> turn'.aerr])
           /\ bstore' = bstore
           /\ queue' = queue
           /\ cpc' = "pop"
           /\ consumeRet' = "none"]_vars

\* An event was rejected and a later one was applied.
C11_Witness ==
    \E i, j \in 1..Len(applied) :
        /\ i < j
        /\ applied[i].err # "nil"
        /\ applied[j].err = "nil"
        /\ bstore[applied[j].book.ID] =
               IF applied[j].qid = DeleteQueue THEN Nil
               ELSE Marshal(applied[j].book)

\* C12: after a pop that returned an error the loop returns nil when
\* ctx.Err() is set, and goes back to the pop when it is not; a pop that
\* returned no error never ends the loop, and the loop ends in no other way.
C12_ExitOnCancel ==
    [][/\ AfterPop =>
           /\ (turn.err # "nil" /\ cctx # "nil") =>
                  cpc' = "exited" /\ consumeRet' = "nil"
           /\ (turn.err # "nil" /\ cctx = "nil") =>
                  cpc' = "pop" /\ consumeRet' = "none"
           /\ turn.err = "nil" => cpc' = "pop" /\ consumeRet' = "none"
       /\ (cpc # "exited" /\ cpc' = "exited") => AfterPop
       /\ cpc = "exited" => cpc' = "exited"]_vars

\* The loop went round on a pop error, then returned on a later one.
C12_Witness ==
    /\ cpc = "exited"
    /\ consumeRet = "nil"
    /\ cctx = "Canceled"
    /\ turns >= 2
    /\ applied = <<>>

\* The documents of the calls the consumer made for a lane, in order.
RECURSIVE LaneApplied(_, _)
LaneApplied(log, l) ==
    IF log = <<>> THEN <<>>
    ELSE IF Head(log).qid = l
         THEN <<Marshal(Head(log).book)>> \o LaneApplied(Tail(log), l)
         ELSE LaneApplied(Tail(log), l)

\* The event popped and not yet dispatched.
InHand(l) ==
    IF cpc = "popped" /\ turn.err = "nil" /\ turn.qid = l
    THEN <<Marshal(turn.book)>> ELSE <<>>

\* C13: on every lane the events the consumer has applied, the one it holds
\* and the ones still queued are, in this order, the events in the order
\* they were pushed: events of a lane are popped and applied in push order.
C13_LaneFifo ==
    \A l \in DOMAIN pushed :
        pushed[l] = LaneApplied(applied, l) \o InHand(l) \o queue[l]

\* Two different events of one lane were both applied.
C13_Witness ==
    \E l \in DOMAIN pushed :
        /\ Len(LaneApplied(applied, l)) >= 2
        /\ LaneApplied(applied, l)[1] # LaneApplied(applied, l)[2]
        /\ pushed[l][1] = LaneApplied(applied, l)[1]

(***************************************************************************)
(* Requests counter: properties.                                           *)
(***************************************************************************)
Counted == {c \in Clients : rpc[c] # "new"}

\* C20: the counter equals the number of requests that passed the
\* interceptor; each of them got its number (the value after its own
\* increment) before next runs, the numbers are 1..counter, and no two
\* requests hold the same number.
C20_CounterSequence ==
    /\ [](/\ called = Cardinality(Counted)
          /\ \A c \in Clients :
                 IF c \in Counted THEN rnum[c] \in 1..called ELSE rnum[c] = 0
          /\ \A c, d \in Counted : c # d => rnum[c] # rnum[d])
    /\ [][\A c \in Clients :
              (rpc[c] = "new" /\ rpc'[c] # "new") =>
                  /\ called' = called + 1
                  /\ rnum'[c] = called'
                  /\ rpc'[c] = "counted"]_vars

\* All clients were counted, in an order that is not the order of the ids.
C20_Witness ==
    /\ Counted = Clients
    /\ called = MaxClients
    /\ rnum[1] > rnum[2]
    /\ \E c \in Clients : rpc[c] = "next"

(***************************************************************************)
(* Middlewares.Chain: properties.                                          *)
(***************************************************************************)
\* i1(i2(...in(h))), composed from the first interceptor inwards.
RECURSIVE Nested(_, _)
Nested(m, h) ==
    IF m = <<>> THEN h ELSE Wrap(Head(m), Nested(Tail(m), h))

RECURSIVE Reverse(_)
Reverse(m) == IF m = <<>> THEN <<>> ELSE Append(Reverse(Tail(m)), Head(m))

\* What one invocation does: the entries in list order, the terminal
\* handler once, the returns in reverse order.
ExpectedTrace(m) ==
    [j \in 1..Len(m) |-> [ev |-> "enter", of |-> m[j]]]
        \o <<[ev |-> "run", of |-> "h"]>>
        \o [j \in 1..Len(m) |-> [ev |-> "exit", of |-> Reverse(m)[j]]]

IsPrefix(a, b) == Len(a) <= Len(b) /\ SubSeq(b, 1, Len(a)) = a

\* C21: Chain returns i1(i2(...in(h))), and h itself for the empty list;
\* every invocation, whatever the other invocations do meanwhile, enters
\* the interceptors in list order, runs the terminal handler once after
\* all of them and unwinds in reverse order.
C21_ChainOrder ==
    chained # NoHandler =>
        /\ chained = Nested(mws, Terminal)
        /\ mws = <<>> => chained = Terminal
        /\ \A k \in Invocations :
               /\ IsPrefix(inv[k].trace, ExpectedTrace(mws))
               /\ inv[k].pc = "done" => inv[k].trace = ExpectedTrace(mws)

\* A list of three different interceptors: one invocation is over while
\* another one, started before the first ended, is still unwinding.
C21_Witness ==
    /\ Len(mws) = 3
    /\ Cardinality({mws[j] : j \in 1..Len(mws)}) = 3
    /\ inv[1].pc = "done"
    /\ inv[2].pc = "return"
    /\ Len(inv[2].stack) = 2
    /\ Len(inv[1].trace) = 7

(***************************************************************************)
(* Consumer: the dispatch on the lane.                                     *)
(***************************************************************************)
\* The step that follows a pop without error.
Dispatching == cpc = "popped" /\ turn.err = "nil" /\ cpc' = "pop"

\* C22: a pop hands over the head of the lane it names; the dispatch makes
\* one call on the backup store, chosen by that lane, with the id the event
\* carries: Add and Update put the event's book under the id, Delete removes
\* the id, a rejected call changes nothing; an event of any other lane
\* makes no call and leaves the backup store as it is.
C22_DispatchByLane ==
    [][/\ (cpc = "pop" /\ cpc' = "popped" /\ turn'.err = "nil"
              /\ turn'.qid \in Dispatched) =>
           /\ queue[turn'.qid] # <<>>
           /\ Marshal(turn'.book) = Head(queue[turn'.qid])
           /\ queue' = [queue EXCEPT ![turn'.qid] = Tail(@)]
           /\ bstore' = bstore
       /\ Dispatching =>
           LET id == turn.book.ID
               call == [qid |-> turn.qid, book |-> turn.book, err |-> turn'.aerr]
           IN  IF turn.qid \in Dispatched
               THEN /\ applied' = Append(applied, call)
                    /\ bstore' =
                         CASE turn'.aerr # "nil" -> bstore
                           [] turn.qid = DeleteQueue ->
                                [bstore EXCEPT ![id] = Nil]
                           [] OTHER ->
                                [bstore EXCEPT ![id] = Marshal(turn.book)]
               ELSE /\ applied' = applied
                    /\ bstore' = bstore]_vars

\* A created book was replicated, then an event of another lane came and
\* went, and the book is still there.
C22_Witness ==
    /\ cpc = "pop"
    /\ turn.qid \in OtherQueues
    /\ Len(applied) = 1
    /\ applied[1].qid = CreateQueue
    /\ applied[1].err = "nil"
    /\ bstore[applied[1].book.ID] = Marshal(applied[1].book)

(***************************************************************************)
(* Book service: a read after a write.                                     *)
(***************************************************************************)
\* The step is a call of GetOne for the id of the last call, its read of
\* the primary store answered.
GetOneOfLast ==
    /\ calls' = calls + 1
    /\ ret'.op = "GetOne"
    /\ ret'.id = ret.id
    /\ ret'.log[1].err # "ErrIO"

\* C23: the GetOne that follows a successful Add of the id, whatever the
\* consumer did in between, makes one read of the primary store, returns
\* the book that was added, and changes no store and no lane.
C23_AddThenGetOne ==
    [][(ret.op = "Add" /\ ret.err = "nil" /\ GetOneOfLast) =>
           /\ ret'.err = "nil"
           /\ ret'.book = ret.arg
           /\ Len(ret'.log) = 1
           /\ ret'.log[1].t = "p.GetOne"
           /\ pstore' = pstore
           /\ bstore' = bstore
           /\ queue' = queue]_vars

\* GetOne right after Add, the create event still on its lane.
C23_Witness ==
    /\ ret.op = "GetOne"
    /\ ret.prev.op = "Add"
    /\ ret.prev.id = ret.id
    /\ ret.err = "nil"
    /\ ret.book.ID = ret.id
    /\ Len(ret.log) = 1
    /\ ret.pre.b[ret.id] = Nil
    /\ ret.pre.q[CreateQueue] # <<>>
    /\ Marshal(ret.book) = Head(ret.pre.q[CreateQueue])

\* C28: the GetOne that follows a successful Delete of the id, with no Add
\* or Update in between and both reads answered, reports not-found and
\* leaves the id out of the primary store, whether or not the consumer has
\* applied the delete event to the backup store.
C28_DeleteThenGetOne ==
    [][(/\ ret.op = "Delete" /\ ret.err = "nil"
        /\ GetOneOfLast
        /\ Len(ret'.log) >= 2 => ret'.log[2].err # "ErrIO") =>
           /\ ret'.err = "ErrBookNotFound"
           /\ pstore'[ret.id] = Nil]_vars

(***************************************************************************)
(* Replication: the two stores once the lanes are drained.                 *)
(***************************************************************************)
\* C29: with every store and queue call succeeding, whenever the three
\* lanes are empty (nothing left for the consumer to apply), each book the
\* primary store holds is held by the backup store with the same content.
C29_DrainedStoresAgree ==
    QueueEmpty(queue) =>
        \A id \in Ids : pstore[id] # Nil => bstore[id] = pstore[id]

(***************************************************************************)
(* The book stores: properties.                                            *)
(***************************************************************************)
\* What a map from id to Book answers to GetOne and to GetAll.
MapGetOne(m, id) ==
    IF m[id] = Nil THEN [book |-> ZeroBook, err |-> "ErrBookNotFound"]
    ELSE [book |-> m[id], err |-> "nil"]

MapGetAll(m) ==
    LET present == {i \in DOMAIN m : m[i] # Nil}
    IN  [b \in {m[i] : i \in present} |->
             Cardinality({i \in present : m[i] = b})]

\* C27: after any sequence of calls, each store answers as the map of the
\* books written by the successful Add and Update calls and not removed by
\* a successful Delete: GetOne gives the last book written under the id,
\* or the not-found error with the empty Book, GetAll lists exactly the
\* books present; and the call just made returned that answer (Update also
\* returns the book it was given).
C27_StoreIsMap ==
    /\ \A s \in Stores :
           /\ \A id \in Ids :
                  StGetOne(s, Cur(s), id, "ok") = MapGetOne(lastw[s], id)
           /\ StGetAll(s, Cur(s), "ok") =
                  [books |-> MapGetAll(lastw[s]), err |-> "nil"]
    /\ (rcall.op = "GetOne" /\ rcall.err # "ErrIO") =>
           [book |-> rcall.book, err |-> rcall.err] =
               MapGetOne(lastw[rcall.store], rcall.id)
    /\ (rcall.op = "GetAll" /\ rcall.err # "ErrIO") =>
           /\ rcall.err = "nil"
           /\ rcall.books = MapGetAll(lastw[rcall.store])
    /\ (rcall.op \in {"Add", "Update"} /\ rcall.err = "nil") =>
           lastw[rcall.store][rcall.id] = rcall.arg
    /\ (rcall.op = "Update" /\ rcall.err = "nil") => rcall.book = rcall.arg
    /\ (rcall.op = "Delete" /\ rcall.err = "nil") =>
           lastw[rcall.store][rcall.id] = Nil

\* The listing of a store that holds the same book under two ids, as in
\* "Get All Books" of TestRedisStore, while the other store holds a book.
C27_Witness ==
    /\ rcall.op = "GetAll"
    /\ rcall.err = "nil"
    /\ NumBooks(rcall.books) = 2
    /\ Cardinality(DOMAIN rcall.books) = 1
    /\ \E s \in Stores : s # rcall.store /\ NumBooks(MapGetAll(lastw[s])) = 1

(***************************************************************************)
(* The book handlers: properties.                                          *)
(***************************************************************************)
\* The fields a Book must carry.
Populated(b) ==
    /\ b.ID # ""
    /\ b.Title # ""
    /\ b.Description # ""
    /\ b.Author # ""
    /\ b.Price # ""

\* C24: after any sequence of create, update and delete requests and of
\* replication steps, a GetOne of the book service that returns no error
\* returns a book with id, title, description, author and price populated,
\* and every book a GetAll returns with no error is populated; a GetOne
\* that finds no such book reports not-found (when the stores answer).
\* The responses of GetOneBook and GetAllBooks carry such books.
C24_ReadsPopulated ==
    /\ \A id \in Ids, pf \in Faults, bf \in Faults, cf \in Faults :
           LET r == SvcGetOne(pstore, bstore, id, pf, bf, cf)
           IN  /\ r.err = "nil" => Populated(r.book)
               /\ (pf = "ok" /\ bf = "ok") =>
                      r.err \in {"nil", "ErrBookNotFound"}
    /\ \A bf \in Faults, pf \in Faults :
           LET r == SvcGetAll(pstore, bstore, bf, pf)
           IN  r.err = "nil" => \A b \in DOMAIN r.books : Populated(b)
    /\ (resp.handler = "GetOneBook" /\ resp.status = StatusOK) =>
           Populated(resp.book)
    /\ (resp.handler = "GetAllBooks" /\ resp.status = StatusOK) =>
           \A b \in DOMAIN resp.books : Populated(b)

\* A created book was replicated and GetAllBooks lists it from the backup
\* store.
C24_Witness ==
    /\ resp.handler = "GetAllBooks"
    /\ resp.status = StatusOK
    /\ Len(resp.svc) = 1
    /\ NumBooks(resp.books) = 1
    /\ resp.books = Listing(bstore)

\* The response tells a missing book: status, message, and what is sent
\* while the context of the request is live.
TellsMissing(r) ==
    /\ r.status = StatusNotFound
    /\ r.message = "book does not exist"

\* The not-found came from the existence check / from the delete.
MissingAtCheck(r) ==
    /\ r.handler = "DeleteOneBook"
    /\ Len(r.svc) >= 1
    /\ r.svc[1].err = "ErrBookNotFound"

MissingAtDelete(r) ==
    /\ r.handler = "DeleteOneBook"
    /\ Len(r.svc) = 2
    /\ r.svc[2].err = "ErrBookNotFound"

\* The code and the body sent for a response built with this status: 504
\* or 499 and no body once the context of the request is done.
SentAs(r, status) ==
    CASE r.ctx = "DeadlineExceeded" -> r.code = StatusGatewayTimeout /\ ~r.body
      [] r.ctx = "Canceled"         -> r.code = StatusClientClosed /\ ~r.body
      [] OTHER                      -> r.code = status /\ r.body

\* C25 as stated: DeleteOneBook answers 404 "book does not exist" whenever
\* the book is missing, at the existence check or at the delete; after a
\* not-found of the check the delete is not invoked.
C25_MissingBook404 ==
    /\ MissingAtCheck(resp) =>
           /\ TellsMissing(resp) /\ resp.code = StatusNotFound /\ resp.body
           /\ Len(resp.svc) = 1
    /\ MissingAtDelete(resp) =>
           TellsMissing(resp) /\ resp.code = StatusNotFound /\ resp.body

\* C25 amended: DeleteOneBook builds the 404 "book does not exist" response
\* whenever the book is missing, at the existence check or at the delete,
\* and after a not-found of the check the delete is not invoked; the
\* response is sent as 404 with its body while the context of the request
\* is live, as 504 or 499 with no body once it is done.
C25_MissingBook404Live ==
    /\ MissingAtCheck(resp) =>
           /\ TellsMissing(resp) /\ SentAs(resp, StatusNotFound)
           /\ Len(resp.svc) = 1
    /\ MissingAtDelete(resp) =>
           TellsMissing(resp) /\ SentAs(resp, StatusNotFound)

\* The mock reported the existence check fine and the delete not-found, on
\* a live context.
C25_Witness ==
    /\ MissingAtDelete(resp)
    /\ resp.svc[1].err = "nil"
    /\ resp.ctx = "nil"
    /\ resp.code = StatusNotFound

\* The fields a create / an update request must carry.
Required(h) ==
    IF h = "UpdateBook"
    THEN {"Title", "Description", "Author", "Price", "ID", "CreatedAt"}
    ELSE {"Title", "Description", "Author", "Price"}

\* The body fails decoding or lacks a required field.
Rejected(r) ==
    /\ r.handler \in {"CreateBook", "UpdateBook"}
    /\ \/ ~r.req.decodes
       \/ \E f \in Required(r.handler) : r.req.book[f] = ZeroBook[f]

\* The request just served.
Served == served' = served + 1

\* C26 as stated: a create or update request whose body fails decoding or
\* the validation of the required fields is answered with status 400 and
\* makes no call of the book service: the stores and the lanes are
\* untouched.
C26_InvalidBody400 ==
    [][(Served /\ Rejected(resp')) =>
           /\ resp'.code = StatusBadRequest
           /\ resp'.svc = <<>>
           /\ UNCHANGED <<pstore, bstore, queue>>]_vars

\* C26 amended: such a request gets the 400 response from its handler and
\* makes no call of the book service, the stores and the lanes untouched;
\* the response is sent as 400 with its body while the context of the
\* request is live, as 504 or 499 with no body once it is done.
C26_InvalidBody400Live ==
    [][(Served /\ Rejected(resp')) =>
           /\ resp'.status = StatusBadRequest
           /\ SentAs(resp', StatusBadRequest)
           /\ resp'.svc = <<>>
           /\ UNCHANGED <<pstore, bstore, queue>>]_vars

\* An update that lacks only created_at was rejected while the primary
\* store holds a book.
C26_Witness ==
    /\ resp.handler = "UpdateBook"
    /\ resp.req.decodes
    /\ resp.req.book.CreatedAt = 0
    /\ Populated(resp.req.book)
    /\ resp.code = StatusBadRequest
    /\ resp.text = "created_at is required"
    /\ pstore[resp.req.book.ID] # Nil

(***************************************************************************)
(* Maintenance mode: the pair of fields a 503 response reads.              *)
(***************************************************************************)
\* api.mode.reason and api.mode.started were both written by one enable
\* request, the last one: neither is cleared, and no enable request sits
\* between its two writes (ops requests are served one at a time here).
OneEnable ==
    /\ mode.reason # ""
    /\ mode.started # 0
    /\ opc # "e_started"

\* The show branch reads the two fields and answers.
Shows == mpc = "m_show" /\ mpc' = "ret"

\* C30: every 503 maintenance response carries the reason and the time of
\* one and the same enable request, whatever enable and disable requests
\* run beside the public request: never a cleared or a mixed pair.
C30_ShowOneEnable ==
    [][Shows => OneEnable]_vars

(***************************************************************************)
(* The two stacks: properties.                                             *)
(***************************************************************************)
\* The stack without its maintenance check.
Unchecked(st) == SelectSeq(st, LAMBDA i : i # "MaintenanceMode")

OpsRequest(k) == oreqs[k].stack = "ops"
PublicRequest(k) == oreqs[k].stack = "public"

\* The request has passed the maintenance check of the public stack.
PastCheck(k) ==
    /\ PublicRequest(k) /\ Walking(k)
    /\ \A i \in 1..Len(middlewaresPublic) :
           middlewaresPublic[i] = "MaintenanceMode" => oreqs[k].at > i

\* C31: the ops stack is the public stack without the maintenance check; a
\* request on an ops route is never answered by the maintenance check and
\* reaches its handler, so a disable request is processed whenever the
\* mode is enabled and leaves it disabled; a public request that meets the
\* check with the mode disabled is handed on and reaches its handler.
C31_OpsNeverBlocked ==
    /\ [](middlewaresOps = Unchecked(middlewaresPublic))
    /\ [](\A k \in Slots : OpsRequest(k) => oreqs[k].out # "503")
    /\ \A k \in Slots :
           (OpsRequest(k) /\ Walking(k)) ~> (oreqs[k].out = "handled")
    /\ [][\A k \in Slots :
              (Walking(k) /\ oreqs[k].op = "disable"
                   /\ oreqs'[k].out = "handled") => ~mode'.enabled]_vars
    /\ [][\A k \in Slots :
              (PublicRequest(k) /\ AtInterceptor(k) /\ ~mode.enabled
                   /\ oreqs'[k] # oreqs[k]) =>
                  /\ oreqs'[k].out = "pending"
                  /\ oreqs'[k].at = oreqs[k].at + 1]_vars
    /\ \A k \in Slots : PastCheck(k) ~> (oreqs[k].out = "handled")

\* While a public request has been answered 503, a disable request has
\* walked the whole ops stack with the mode enabled.
C31_Witness ==
    /\ mode.enabled
    /\ \E k \in Slots, j \in Slots :
           /\ oreqs[k].op = "disable" /\ Walking(k)
           /\ oreqs[k].at = Len(middlewaresOps) + 1
           /\ PublicRequest(j) /\ oreqs[j].out = "503"

(***************************************************************************)
(* The status histogram under its lock: properties.                        *)
(***************************************************************************)
\* Requests that have stored their count and still hold the lock.
Storing(code) ==
    Cardinality({c \in Finishing :
                     sreq[c].pc = "unlock" /\ sreq[c].code = code})

\* C32: no update of the histogram is lost: the entry of a code counts the
\* requests that left StatsMiddleware with that code (and the one that has
\* stored and not yet unlocked); the write lock excludes the readers and
\* the other writers, and the histogram GetStatistics encodes does not
\* change while it is encoded.
C32_HistogramUnderLock ==
    /\ \A code \in StatusCodes : stats[code] = left[code] + Storing(code)
    /\ smu.w # 0 => smu.r = {}
    /\ Cardinality({c \in Finishing :
                        sreq[c].pc \in {"load", "store", "unlock"}}) <= 1
    /\ \A c \in Finishing :
           /\ sreq[c].pc = "encoding" => sreq[c].seen = stats
           /\ sreq[c].pc \in {"runlock", "lock"} /\ sreq[c].kind = "stats" =>
                  sreq[c].sent = sreq[c].seen

\* Three requests have left with 200, one of them a statistics request
\* that encoded the histogram after the first and before the last.
C32_Witness ==
    /\ \A c \in Finishing : sreq[c].pc = "done"
    /\ left[StatusOK] = MaxFinishing
    /\ stats[StatusOK] = MaxFinishing
    /\ \E c \in Finishing :
           sreq[c].kind = "stats" /\ sreq[c].sent[StatusOK] = 1

(***************************************************************************)
(* The update event and the record it replicates.                          *)
(***************************************************************************)
\* A call of Update has just returned without error.
Updated == calls' = calls + 1 /\ ret'.op = "Update" /\ ret'.err = "nil"

\* The consumer has just taken an event from the updating lane.
UpdateApplied ==
    /\ calls' = calls
    /\ queue' # queue
    /\ FirstLane(queue) = UpdateQueue

\* C33: Update writes the book with the updatedAt it has set to the primary
\* store and pushes that same document on the updating lane; the consumer
\* puts the document of the event under the id of its book, so the backup
\* record then equals the primary record that Update wrote.
C33_UpdateEventIsRecord ==
    [][/\ Updated =>
              /\ ret'.book.UpdatedAt \in Times
              /\ ret'.book = [ret'.arg EXCEPT !.UpdatedAt = ret'.book.UpdatedAt]
              /\ pstore' = [pstore EXCEPT ![ret'.id] = Marshal(ret'.book)]
              /\ queue' = [queue EXCEPT ![UpdateQueue] =
                               Append(@, pstore'[ret'.id])]
       /\ UpdateApplied =>
              LET doc == Head(queue[UpdateQueue])
              IN  /\ queue' = [queue EXCEPT ![UpdateQueue] = Tail(@)]
                  /\ bstore' = [bstore EXCEPT ![Unmarshal(doc).ID] = doc]]_vars

\* The lanes are drained and both stores hold the record an Update wrote
\* for an id that was never created.
C33_Witness ==
    /\ QueueEmpty(queue)
    /\ \E id \in Ids :
           /\ pstore[id] # Nil
           /\ bstore[id] = pstore[id]
           /\ Unmarshal(pstore[id]).CreatedAt = 0
           /\ Unmarshal(pstore[id]).UpdatedAt \in Times

(***************************************************************************)
(* The consumer between a pop and the next pop.                            *)
(***************************************************************************)
\* Pop has returned an event and the switch has not run yet.
Holding == cpc = "popped" /\ turn.err = "nil"

\* C34: an event that Pop returned stays in the consumer's hand until the
\* switch makes one call on the backup store for it (its lane, its book),
\* and only then is the consumer back at the pop; while it holds an event it
\* neither pops nor returns, whether or not the context is done meanwhile.
\* No call on the backup store is made for anything but the event in hand.
C34_PoppedIsHandedOver ==
    [][/\ (Holding /\ cpc' # cpc) =>
              /\ cpc' = "pop"
              /\ applied' = Append(applied, [qid |-> turn.qid,
                                             book |-> turn.book,
                                             err |-> turn'.aerr])
              /\ \E f \in Faults : bstore' = Apply(bstore, turn.qid, turn.book, f)
       /\ (Holding /\ cpc' = cpc) =>
              /\ turn' = turn
              /\ applied' = applied
              /\ bstore' = bstore
              /\ consumeRet' = consumeRet
              /\ \A l \in DOMAIN queue : Len(queue'[l]) >= Len(queue[l])
       /\ (applied' # applied \/ bstore' # bstore) => Holding]_vars

\* The context was live when Pop returned the event and done when the
\* switch ran: the event is the last one applied, the backup store took it,
\* and the consumer is back at the pop.
C34_Witness ==
    /\ cpc = "pop"
    /\ cctx = "Canceled"
    /\ turn.err = "nil" /\ turn.pctx = "nil" /\ turn.actx = "Canceled"
    /\ applied # <<>>
    /\ applied[Len(applied)] = [qid |-> turn.qid, book |-> turn.book,
                                err |-> "nil"]
    /\ turn.qid = CreateQueue
    /\ bstore[turn.book.ID] = Marshal(turn.book)

(***************************************************************************)
(* The running consumer: every lane is drained.                            *)
(***************************************************************************)
\* An event waiting on lane l is popped, and the event popped from lane l
\* is handed to the backup store.
Drained(l) ==
    /\ (queue[l] # <<>>) ~> (Holding /\ turn.qid = l)
    /\ (Holding /\ turn.qid = l) ~> (cpc = "pop" /\ turn.qid = l)

\* C35: with the consumer running fairly and never cancelled, an event
\* waiting on any of the three lanes is eventually popped and applied to the
\* backup store, whatever is pushed on the other lanes meanwhile.
C35_EveryLaneDrained ==
    /\ Drained(CreateQueue)
    /\ Drained(UpdateQueue)
    /\ Drained(DeleteQueue)

\* The lane BLPOP looks at first is drained.
FirstLaneDrained == Drained(CreateQueue)

(***************************************************************************)
(* What a call of GetOne leaves behind.                                    *)
(***************************************************************************)
\* A call of GetOne has just returned.
GotOne == calls' = calls + 1 /\ ret'.op = "GetOne"

\* C36: a call of GetOne leaves the lanes and the backup store as they were
\* and calls nothing but the two reads and the Add on the primary store; the
\* primary store changes only by that Add, made after the backup store has
\* answered its read, and the record it puts under the id is the book that
\* read returned.
C36_GetOneFrame ==
    [][GotOne =>
           LET log == ret'.log
               adds == {i \in 1..Len(log) : log[i].t = "p.Add"}
           IN  /\ queue' = queue
               /\ bstore' = bstore
               /\ \A i \in 1..Len(log) :
                      log[i].t \in {"p.GetOne", "b.GetOne", "p.Add"}
               /\ adds \subseteq {3}
               /\ adds # {} =>
                      /\ log[1].t = "p.GetOne" /\ log[1].err # "nil"
                      /\ log[2].t = "b.GetOne" /\ log[2].err = "nil"
                      /\ bstore[ret'.id] # Nil
                      /\ ret'.book = Unmarshal(bstore[ret'.id])
               /\ pstore' # pstore =>
                      /\ adds = {3}
                      /\ log[3].err = "nil"
                      /\ pstore' = [pstore EXCEPT ![ret'.id] = Marshal(ret'.book)]]_vars

\* The read of the primary store failed for an id it holds; the record the
\* backup store holds for the id, a different one, has replaced it.
C36_Witness ==
    /\ ret.op = "GetOne"
    /\ Len(ret.log) = 3
    /\ ret.log[3].err = "nil"
    /\ ret.pre.p[ret.id] # Nil
    /\ ret.pre.p[ret.id] # ret.pre.b[ret.id]
    /\ pstore[ret.id] = ret.pre.b[ret.id]
    /\ bstore = ret.pre.b

(***************************************************************************)
(* DeleteAll: its context and its return.                                  *)
(***************************************************************************)
\* C37: a call of DeleteAll returns once the clearing call of the primary
\* store has completed or the timeout of its own context has expired,
\* whichever comes first; its context is not done because the caller's is.
C37_DeleteAllReturns ==
    /\ [][(dall.pc = "select" /\ dall'.rctx # dall.rctx) =>
               dall'.opsCtx = dall.opsCtx /\ dall'.pc = "select"]_vars
    /\ (dall.pc = "select" /\ (clearing = "returned" \/ dall.opsCtx # "nil"))
           ~> (dall.pc = "returned")

\* A call of DeleteAll returns once the clearing call has completed.
DeleteAllReturnsOnCompletion ==
    (dall.pc = "select" /\ clearing = "returned") ~> (dall.pc = "returned")

\* A call of DeleteAll returns only by taking the error of the clearing call.
DeleteAllReturnsByReceive ==
    [][(dall.pc = "select" /\ dall'.pc = "returned") =>
           errChan # <<>> /\ errChan' = <<>>]_vars

(***************************************************************************)
(* The counter and the histogram as GetStatistics reports them.            *)
(***************************************************************************)
\* The counts of a histogram, added up.
HistogramSum(h) ==
    h[StatusOK] + h[StatusNotFound] + h[StatusClientClosed]
        + h[StatusInternalServerError] + h[StatusGatewayTimeout]

\* Slot k holds a report of GetStatistics.
Reported(k) == treq[k].kind = "stats" /\ treq[k].h \in {"stats", "exited"}

\* C38: a report of GetStatistics made while no other request was in flight
\* has called equal to the sum of the counts of its histogram.
C38_CalledIsHistogramSum ==
    \A k \in Slots :
        (Reported(k) /\ treq[k].report.alone) =>
            treq[k].report.called = HistogramSum(treq[k].report.status)

\* The same when, besides, no goroutine that TimeoutMiddleware started for
\* an answered request was still running.
CalledIsHistogramSumWhenQuiet ==
    \A k \in Slots :
        (Reported(k) /\ treq[k].report.quiet) =>
            treq[k].report.called = HistogramSum(treq[k].report.status)

\* A report made with nothing else going on, after three requests.
QuietReport ==
    \E k \in Slots :
        /\ Reported(k) /\ treq[k].report.quiet
        /\ treq[k].report.called = 3

(***************************************************************************)
(* Run returns.                                                            *)
(***************************************************************************)
\* A stop was asked for, or the server failed.
Stopping == app.nctx # "nil" \/ app.gerr # "nil"

\* C39: once a stop was asked for or the server has failed, Run returns;
\* when it is past g.Wait() the server function, Stop and the consumer have
\* returned, the server was shut down and, after that, the queue client
\* closed; the consumer leaves its loop only with the group context done,
\* and it has left once the client is closed; Stop and the consumer return
\* nil, so that the error of Run's result is the error of Serve or none.
C39_RunReturns ==
    /\ Stopping ~> (app.run = "returned")
    /\ (app.client = "closed") ~> (cpc = "exited")
    /\ [](app.run # "wait" =>
              /\ app.serve = "returned" /\ app.stop = "returned"
              /\ app.cq = "returned" /\ cpc = "exited"
              /\ app.server = "down" /\ app.client = "closed"
              /\ Stopping)
    /\ [](app.client = "closed" => app.server = "down")
    /\ [](cpc = "exited" => cctx # "nil" /\ consumeRet = "nil")
    /\ [](app.stop # "wait" => Stopping)
    /\ [](app.run = "returned" =>
              app.ret = IF app.serve = "returned" /\ app.gerr = "ErrListen"
                        THEN "ErrListen" ELSE "nil")
    /\ [][app'.gerr # app.gerr => app.serve = "serving" /\ app'.serve = "returned"]_vars

\* Run has returned the error of the server; the consumer had applied an
\* event after the group context was done.
C39_Witness ==
    /\ app.run = "returned"
    /\ app.ret = "ErrListen"
    /\ app.reason = "errored at running"
    /\ cpc = "exited"
    /\ \E id \in Ids : bstore[id] # Nil

\* Run has returned nil after a signal.
RunStoppedOnSignal ==
    /\ app.run = "returned"
    /\ app.ret = "nil"
    /\ app.reason = "requested to stop"

====
